---- MODULE Spec2Model ----
(***************************************************************************)
(* Animation production tracker: the local server's SyncService and its    *)
(* routes (server/services/syncService.js, server/routes/api.js) against   *)
(* the Railway peer, and the cloud server's spreadsheet/database routes    *)
(* (server.js, database/sqlite-db.js).                                     *)
(***************************************************************************)
EXTENDS Integers, Sequences, FiniteSets, TLC

(***************************************************************************)
(* Bounds of the model.                                                    *)
(***************************************************************************)
MaxId == 2          \* local surrogate ids in use at one time
MaxPeerId == 2      \* peer ids in use at one time
MaxLog == 2         \* sync-log entries kept (the most recent ones)
NumTasks == 2       \* handlers in flight on the local event loop

Tasks == 1..NumTasks

\* JS null / undefined for a text field; 0 stands for a missing id (falsy).
Null == "<null>"

(***************************************************************************)
(* Production records.                                                     *)
(***************************************************************************)
Fields(an, sh, st, nt) ==
    [animator |-> an, project_type |-> "long-form", episode_title |-> "Ep1",
     scene |-> "SC_01", shot |-> sh, week_yyyymmdd |-> "20250106",
     status |-> st, notes |-> nt]

\* identity key (projectType, title, scene, shot)
KeyOf(d) == <<d.project_type, d.episode_title, d.scene, d.shot>>

\* request bodies clients of the local server send
LocalInputs == { Fields("A", "SH_01", "submitted", ""),
                 Fields("A", "SH_01", "approved", "fix") }

\* what users of the peer write there
PeerInputs == { Fields("B", "SH_01", "revision", Null),
                Fields("B", "SH_02", "submitted", "") }

\* x || ''
OrEmpty(x) == IF x = Null THEN "" ELSE x

VARIABLES
    local,       \* local record store: set of [id, data, railway_id, synced]
    peer,        \* peer store: set of [id, data]
    isSyncing,   \* SyncService.isSyncing
    task,        \* the handlers in flight
    syncLog,     \* sync_log, most recent MaxLog entries
    statusTbl,   \* server_status keys written by db.updateStatus
    lastApplied, \* snapshot of the latest replaceAllRecords while the store is untouched since
    excel,       \* cloud server: rows of production_summary.xlsx
    cloudDb,     \* cloud server: rows of table production_summary
    cloudLog,    \* cloud server: latest row of table sync_log
    dbEnabled,   \* cloud server: db.isEnabled()
    notified,    \* cloud server: last notification sent to the peer
    resp,        \* cloud server: outcome of the last request
    startup,     \* cloud server: initializeApp and its startup pull
    fetched,     \* cloud server: the latest fetch from the local server
    shown,       \* browser: the list it last loaded and its request since
    auth         \* local server: API_SECRET and the keys of the latest request

localVars == <<local, peer, isSyncing, task, syncLog, statusTbl, lastApplied>>
cloudVars == <<excel, cloudDb, cloudLog, dbEnabled, notified, resp, startup, fetched,
               shown>>
vars == <<local, peer, isSyncing, task, syncLog, statusTbl, lastApplied,
          excel, cloudDb, cloudLog, dbEnabled, notified, resp, startup, fetched,
          shown, auth>>

(***************************************************************************)
(* Helpers on sets of records carrying an id.                              *)
(***************************************************************************)
MinId(S) == CHOOSE i \in {r.id : r \in S} : \A j \in {r.id : r \in S} : i <= j

RECURSIVE SortById(_)
SortById(S) ==
    IF S = {} THEN <<>>
    ELSE LET m == CHOOSE r \in S : r.id = MinId(S)
         IN  <<m>> \o SortById({r \in S : r.id # m.id})

SeqToSet(s) == {s[i] : i \in 1..Len(s)}

\* a surrogate id no record, handler or log entry refers to (Date.now() + Math.random(),
\* AUTOINCREMENT): ids nothing refers to any more are handed out again
FreshId(used) == CHOOSE i \in 1..(Cardinality(used) + 1) :
                    i \notin used /\ \A j \in 1..(i - 1) : j \in used

(***************************************************************************)
(* Local record store (server/database/db of the local server).            *)
(***************************************************************************)
HasKey(store, k) == \E r \in store : KeyOf(r.data) = k

\* db.insertRecord
InsertRecord(store, id, d) ==
    store \cup {[id |-> id, data |-> d, railway_id |-> 0, synced |-> FALSE]}

\* db.updateRecord(id, fields): rid = 0 when the fields carry no railway_id
UpdateRecord(store, id, d, rid) ==
    {IF r.id = id
     THEN [r EXCEPT !.data = d,
                    !.railway_id = IF rid = 0 THEN r.railway_id ELSE rid,
                    !.synced = FALSE]
     ELSE r : r \in store}

\* db.deleteRecord
DeleteRecord(store, id) == {r \in store : r.id # id}

\* db.replaceAllRecords
ReplaceAllRecords(store, records) == records

\* db.logSync
LogEntry(type, rid, action, status) ==
    [sync_type |-> type, local_record_id |-> rid, action |-> action, status |-> status]

LogSync(log, e) ==
    IF Len(log) < MaxLog THEN Append(log, e) ELSE Append(Tail(log), e)

(***************************************************************************)
(* Peer (Railway app) endpoints used by the SyncService.                   *)
(***************************************************************************)
PeerHasId(p, pid) == \E r \in p : r.id = pid
PeerHasKey(p, k) == \E r \in p : KeyOf(r.data) = k

\* POST <peer>/api/productions
PeerCreate(p, pid, d) == p \cup {[id |-> pid, data |-> d]}

\* PUT <peer>/api/productions/:id
PeerUpdate(p, pid, d) == {IF r.id = pid THEN [r EXCEPT !.data = d] ELSE r : r \in p}

\* GET <peer>/api/productions/export
PeerExport(p) == SortById(p)

(***************************************************************************)
(* SyncService: pure parts.                                                *)
(***************************************************************************)
\* (variant) only records never pushed are selected
RecordsToSyncNewOnly(store) == SortById({r \in store : ~r.synced /\ r.railway_id = 0})

\* syncToRailway: the records selected for the push
RecordsToSync(store) == SortById({r \in store : ~r.synced})

\* payload of one pushed record
SyncData(record) == record.data

\* the local id of the record that carries this peer id, 0 if none
FindLocalId(localRecords, pid) ==
    LET hits == {l \in localRecords : l.railway_id = pid}
    IN  IF hits = {} THEN 0 ELSE MinId(hits)

\* (variant) status filled from the notes column
ConvertRecordMixed(record, id) ==
    [id |-> id,
     data |-> [animator |-> OrEmpty(record.data.animator),
               project_type |-> OrEmpty(record.data.project_type),
               episode_title |-> OrEmpty(record.data.episode_title),
               scene |-> OrEmpty(record.data.scene),
               shot |-> OrEmpty(record.data.shot),
               week_yyyymmdd |-> OrEmpty(record.data.week_yyyymmdd),
               status |-> OrEmpty(record.data.notes),
               notes |-> OrEmpty(record.data.notes)],
     railway_id |-> record.id,
     synced |-> FALSE]

\* one converted record of syncFromRailway
ConvertRecord(record, id) ==
    [id |-> id,
     data |-> [animator |-> OrEmpty(record.data.animator),
               project_type |-> OrEmpty(record.data.project_type),
               episode_title |-> OrEmpty(record.data.episode_title),
               scene |-> OrEmpty(record.data.scene),
               shot |-> OrEmpty(record.data.shot),
               week_yyyymmdd |-> OrEmpty(record.data.week_yyyymmdd),
               status |-> OrEmpty(record.data.status),
               notes |-> OrEmpty(record.data.notes)],
     railway_id |-> record.id,
     synced |-> FALSE]

\* (variant) every pulled record gets a fresh id
AssignIdAlwaysFresh(localRecords, record, fresh) == fresh

\* id given to a peer record: the mapped local id, else a fresh one
AssignId(localRecords, record, fresh) ==
    IF FindLocalId(localRecords, record.id) # 0
    THEN FindLocalId(localRecords, record.id)
    ELSE fresh

\* localRecords.find(l => l.railway_id === rid): the first record, if any
FindLocal(localRecords, rid) ==
    {l \in localRecords : l.railway_id = rid /\ l.id = FindLocalId(localRecords, rid)}

\* detectDifferences(localRecords, railwayRecords), called with the converted
\* records as railwayRecords: added and updated match on railway_id, removed
\* looks for a converted record whose id equals the local record's railway_id
DetectDifferences(localRecords, railwayRecords) ==
    [added |-> {r \in railwayRecords : FindLocal(localRecords, r.railway_id) = {}},
     updated |-> {r \in railwayRecords :
                     \E l \in FindLocal(localRecords, r.railway_id) : l.data # r.data},
     removed |-> {l \in localRecords :
                     /\ l.railway_id # 0
                     /\ ~\E r \in railwayRecords : r.id = l.railway_id}]

\* syncFromRailway: railwayRecords.map(...); used are the ids no fresh id may take
RECURSIVE ConvertedRecords(_, _, _)
ConvertedRecords(railwayRecords, localRecords, used) ==
    IF railwayRecords = <<>> THEN {}
    ELSE LET record == Head(railwayRecords)
             id == AssignId(localRecords, record, FreshId(used))
         IN  {ConvertRecord(record, id)}
             \cup ConvertedRecords(Tail(railwayRecords), localRecords, used \cup {id})

(***************************************************************************)
(* Handlers in flight.                                                     *)
(***************************************************************************)
NoMut == [id |-> 0, action |-> "none", key |-> <<>>]

\* no response sent
NoReply == [status |-> 0, success |-> FALSE, railway_push |-> "none",
            railway_pull |-> "none", synced_to_railway |-> FALSE]

\* kind: the entry point; pc: where it stands; plan: the phases still to run;
\* flag: it set isSyncing; toSync: recordsToSync not yet pushed; errors: the ids
\* whose push failed; snap: the fetched railwayRecords; pushDone, pulled: the
\* push / the pull has returned; mut: the mutation a route made first;
\* localAtStart, peerAtStart: both stores when a bidirectional pass began;
\* reply: the response the route sent (pc "replied"); refused: the ids whose
\* push the peer answered 2xx with success: false; differences: what
\* detectDifferences returned to the pull that is about to log; sent: the
\* requests the running loop of syncToRailway has made, each with its record
NoDifferences == [added |-> {}, updated |-> {}, removed |-> {}]

IdleTask == [kind |-> "none", pc |-> "idle", plan |-> <<>>, flag |-> FALSE,
             toSync |-> <<>>, errors |-> {}, refused |-> {}, snap |-> <<>>,
             differences |-> NoDifferences, sent |-> <<>>, atFetch |-> {},
             written |-> {}, pushDone |-> FALSE,
             pulled |-> FALSE, mut |-> NoMut, outcome |-> "none",
             localAtStart |-> {}, peerAtStart |-> {}, reply |-> NoReply]

Idle(t) == task[t].pc = "idle"

\* enter the phase at the head of plan; store is the local store at that moment
EnterPhase(tk, plan, store) ==
    IF plan = <<>>
    THEN [tk EXCEPT !.pc = "done", !.plan = <<>>, !.outcome = "ok"]
    ELSE IF Head(plan) = "push"
    THEN [tk EXCEPT !.pc = "push", !.plan = Tail(plan),
                    !.toSync = RecordsToSync(store)]
    ELSE [tk EXCEPT !.pc = "fetch", !.plan = Tail(plan)]

\* a new handler of this kind
NewTask(kind, plan, flag, mut, store) ==
    EnterPhase([IdleTask EXCEPT !.kind = kind, !.flag = flag, !.mut = mut,
                                !.localAtStart = IF Len(plan) = 2 THEN store ELSE {},
                                !.peerAtStart = IF Len(plan) = 2 THEN peer ELSE {}],
               plan, store)

\* (variant) no finally block
ClearFlagNever(tk, cur) == cur

\* a handler that has answered: what it was and what it sent
Replied(tk, reply) ==
    [IdleTask EXCEPT !.kind = tk.kind, !.pc = "replied", !.mut = tk.mut,
                     !.outcome = tk.outcome, !.reply = reply]

\* a route refuses the request before any pass: 404 / 500 from the store operation
Refuse(t, kind, mut, status) ==
    task' = [task EXCEPT ![t] =
               Replied([IdleTask EXCEPT !.kind = kind, !.mut = mut, !.outcome = "refused"],
                       [NoReply EXCEPT !.status = status])]

\* the finally block of the guarded passes
ClearFlag(tk, cur) == IF tk.flag THEN FALSE ELSE cur

(***************************************************************************)
(* Ids something still refers to.                                          *)
(***************************************************************************)
LocalIdsInUse ==
    {r.id : r \in local}
    \cup UNION {{r.id : r \in SeqToSet(task[t].toSync)} : t \in Tasks}
    \cup {task[t].mut.id : t \in Tasks}
    \cup UNION {{r.id : r \in task[t].localAtStart} : t \in Tasks}
    \cup {syncLog[i].local_record_id : i \in 1..Len(syncLog)}

PeerIdsInUse ==
    {r.id : r \in peer}
    \cup {r.railway_id : r \in local}
    \cup UNION {{r.railway_id : r \in SeqToSet(task[t].toSync)} : t \in Tasks}
    \cup UNION {{r.id : r \in SeqToSet(task[t].snap)} : t \in Tasks}
    \cup {r.id : r \in SeqToSet(lastApplied.snap)}
    \cup UNION {{r.id : r \in task[t].peerAtStart} : t \in Tasks}

NewLocalId == FreshId(LocalIdsInUse)
NewPeerId == FreshId(PeerIdsInUse)

(***************************************************************************)
(* Initial state: the server has started, init() has armed the timer and   *)
(* called performInitialSync; the store holds what the spreadsheet held.   *)
(***************************************************************************)
NoSnapshot == [valid |-> FALSE, snap |-> <<>>, again |-> FALSE]

StoredAtStart == {{}, InsertRecord({}, 1, Fields("A", "SH_01", "submitted", ""))}

InitLocal ==
    /\ local \in StoredAtStart
    /\ peer = {}
    /\ isSyncing = FALSE
    /\ task = [t \in Tasks |->
                 IF t = 1 THEN NewTask("initial", <<"push">>, FALSE, NoMut, local)
                 ELSE IdleTask]
    /\ syncLog = <<>>
    /\ statusTbl = [last_sync_attempt |-> FALSE, last_successful_sync |-> FALSE]
    /\ lastApplied = NoSnapshot

\* a handler moves on; at its end: finally-block and status row
Finish(t, tk) ==
    /\ task' = [task EXCEPT ![t] = tk]
    /\ isSyncing' = IF tk.pc = "done" THEN ClearFlag(tk, isSyncing) ELSE isSyncing
    /\ statusTbl' = IF tk.pc = "done" /\ tk.outcome = "ok"
                       /\ tk.kind \in {"timer", "railway", "bidir"}
                    THEN [statusTbl EXCEPT !.last_successful_sync = TRUE]
                    ELSE statusTbl

(***************************************************************************)
(* Triggers.                                                               *)
(***************************************************************************)
\* (variant) the skip goes through the finally block
EnterGuardedClearing(t, kind, plan) ==
    IF isSyncing
    THEN isSyncing' = FALSE /\ UNCHANGED <<statusTbl, task>>
    ELSE /\ isSyncing' = TRUE
         /\ statusTbl' = [statusTbl EXCEPT !.last_sync_attempt = TRUE]
         /\ task' = [task EXCEPT ![t] = NewTask(kind, plan, TRUE, NoMut, local)]

\* a guarded pass is entered: the flag is taken, last_sync_attempt is written
EnterGuarded(t, kind, plan) ==
    IF isSyncing
    THEN UNCHANGED <<isSyncing, statusTbl, task>>
    ELSE /\ isSyncing' = TRUE
         /\ statusTbl' = [statusTbl EXCEPT !.last_sync_attempt = TRUE]
         /\ task' = [task EXCEPT ![t] = NewTask(kind, plan, TRUE, NoMut, local)]

\* the setInterval callback -> performExcelToRailwaySync
Tick(t) ==
    /\ Idle(t)
    /\ EnterGuarded(t, "timer", <<"push">>)
    /\ UNCHANGED <<local, peer, syncLog, lastApplied, cloudVars, auth>>

\* SyncService.performRailwaySync
RailwaySync(t) ==
    /\ Idle(t)
    /\ EnterGuarded(t, "railway", <<"pull">>)
    /\ UNCHANGED <<local, peer, syncLog, lastApplied, cloudVars, auth>>

\* SyncService.performBidirectionalSync
BidirectionalSync(t) ==
    /\ Idle(t)
    /\ EnterGuarded(t, "bidir", <<"pull", "push">>)
    /\ UNCHANGED <<local, peer, syncLog, lastApplied, cloudVars, auth>>

\* The handlers of the routes say nothing of auth: the request's keys are
\* recorded by whoever lets the request in.

\* POST /api/sync/railway-database
ManualPull(t) ==
    /\ Idle(t)
    /\ task' = [task EXCEPT ![t] = NewTask("manualPull", <<"pull">>, FALSE, NoMut, local)]
    /\ UNCHANGED <<local, peer, isSyncing, syncLog, statusTbl, lastApplied, cloudVars>>

\* POST /api/sync/to-railway
ManualPush(t) ==
    /\ Idle(t)
    /\ task' = [task EXCEPT ![t] = NewTask("manualPush", <<"push">>, FALSE, NoMut, local)]
    /\ UNCHANGED <<local, peer, isSyncing, syncLog, statusTbl, lastApplied, cloudVars>>

\* POST /api/productions: insert, then syncToRailway and syncFromRailway unguarded
ProductionsCreate(t, d) ==
    /\ Idle(t)
    /\ ~HasKey(local, KeyOf(d))
    /\ NewLocalId <= MaxId
    /\ local' = InsertRecord(local, NewLocalId, d)
    /\ lastApplied' = NoSnapshot
    /\ task' = [task EXCEPT ![t] =
                   NewTask("productions", <<"push", "pull">>, FALSE,
                           [id |-> NewLocalId, action |-> "insert", key |-> KeyOf(d)],
                           local')]
    /\ UNCHANGED <<peer, isSyncing, syncLog, statusTbl, cloudVars>>

\* performRealtimeBidirectionalSync, entry: wait when a pass is running
EnterRealtime(t, mut) ==
    IF isSyncing
    THEN /\ task' = [task EXCEPT ![t] =
                        [IdleTask EXCEPT !.kind = "realtime", !.pc = "wait", !.mut = mut]]
         /\ UNCHANGED isSyncing
    ELSE /\ isSyncing' = TRUE
         /\ task' = [task EXCEPT ![t] =
                        NewTask("realtime", <<"push", "pull">>, TRUE, mut, local')]

\* POST /api/production-data
DataCreate(t, d) ==
    /\ Idle(t)
    /\ ~HasKey(local, KeyOf(d))
    /\ NewLocalId <= MaxId
    /\ local' = InsertRecord(local, NewLocalId, d)
    /\ lastApplied' = NoSnapshot
    /\ EnterRealtime(t, [id |-> NewLocalId, action |-> "create", key |-> KeyOf(d)])
    /\ UNCHANGED <<peer, syncLog, statusTbl, cloudVars>>

\* PUT /api/production-data/:id
DataUpdate(t, id, d) ==
    /\ Idle(t)
    /\ IF \A r \in local : r.id # id
       THEN /\ Refuse(t, "realtime", [id |-> id, action |-> "update", key |-> KeyOf(d)], 404)
            /\ UNCHANGED <<local, lastApplied, isSyncing>>
       ELSE /\ \E r \in local : r.id = id /\ r.data # d
            /\ local' = UpdateRecord(local, id, d, 0)
            /\ lastApplied' = NoSnapshot
            /\ EnterRealtime(t, [id |-> id, action |-> "update", key |-> KeyOf(d)])
    /\ UNCHANGED <<peer, syncLog, statusTbl, cloudVars>>

\* DELETE /api/production-data/:id
DataDelete(t, id) ==
    /\ Idle(t)
    /\ IF \A r \in local : r.id # id
       THEN /\ Refuse(t, "realtime", [id |-> id, action |-> "delete", key |-> <<>>], 404)
            /\ UNCHANGED <<local, lastApplied, isSyncing>>
       ELSE /\ local' = DeleteRecord(local, id)
            /\ lastApplied' = NoSnapshot
            /\ EnterRealtime(t, [id |-> id, action |-> "delete",
                                 key |-> KeyOf((CHOOSE r \in local : r.id = id).data)])
    /\ UNCHANGED <<peer, syncLog, statusTbl, cloudVars>>

\* performRealtimeBidirectionalSync after the 1 s wait
RealtimeWake(t) ==
    /\ task[t].pc = "wait"
    /\ IF isSyncing
       THEN /\ task' = [task EXCEPT ![t] = [@ EXCEPT !.pc = "done", !.outcome = "busy"]]
            /\ UNCHANGED isSyncing
       ELSE /\ isSyncing' = TRUE
            /\ task' = [task EXCEPT ![t] =
                           EnterPhase([@ EXCEPT !.flag = TRUE, !.localAtStart = local,
                                                !.peerAtStart = peer],
                                      <<"push", "pull">>, local)]
    /\ UNCHANGED <<local, peer, syncLog, statusTbl, lastApplied, cloudVars, auth>>

(***************************************************************************)
(* syncToRailway: one iteration of the loop over recordsToSync.            *)
(***************************************************************************)
\* the peer accepts the request for this record
PeerAccepts(record) ==
    IF record.railway_id # 0
    THEN PeerHasId(peer, record.railway_id)
    ELSE ~PeerHasKey(peer, KeyOf(SyncData(record))) /\ NewPeerId <= MaxPeerId

\* (variant) every pushed record is logged as an insert
PushActionInsertOnly(record) == "insert"

PushAction(record) == IF record.railway_id # 0 THEN "update" ELSE "insert"

\* (variant) every record is sent as a create
RequestAlwaysPost(record) ==
    [method |-> "POST", target |-> 0, body |-> SyncData(record)]

\* the request made for one record: axios.put(.../api/productions/<railway_id>)
\* or axios.post(.../api/productions); target 0: no id in the URL
Request(record) ==
    IF record.railway_id # 0
    THEN [method |-> "PUT", target |-> record.railway_id, body |-> SyncData(record)]
    ELSE [method |-> "POST", target |-> 0, body |-> SyncData(record)]

Sent(record) == [record |-> record, request |-> Request(record)]

PushRecord(t) ==
    /\ task[t].pc = "push" /\ task[t].toSync # <<>>
    /\ LET record == Head(task[t].toSync)
           request == Request(record)
       IN  \E ok \in BOOLEAN :
             /\ ok => PeerAccepts(record)
             /\ IF ~ok
                THEN /\ UNCHANGED <<local, peer, lastApplied>>
                     /\ task' = [task EXCEPT ![t] =
                                    [@ EXCEPT !.toSync = Tail(@),
                                              !.sent = Append(@, Sent(record)),
                                              !.errors = @ \cup {record.id}]]
                ELSE /\ task' = [task EXCEPT ![t] =
                                    [@ EXCEPT !.toSync = Tail(@),
                                              !.sent = Append(@, Sent(record))]]
                     /\ IF request.method = "PUT"
                        THEN /\ peer' = PeerUpdate(peer, request.target, request.body)
                             /\ UNCHANGED <<local, lastApplied>>
                        ELSE /\ peer' = PeerCreate(peer, NewPeerId, request.body)
                             /\ local' = UpdateRecord(local, record.id, record.data, NewPeerId)
                             /\ lastApplied' = NoSnapshot
             /\ syncLog' = LogSync(syncLog,
                                   LogEntry("local_to_railway", record.id, PushAction(record),
                                            IF ok THEN "success" ELSE "failed"))
    /\ UNCHANGED <<isSyncing, statusTbl, cloudVars, auth>>

\* one iteration whose request the peer answers 2xx with {success: false} and
\* no data: the answer to a PUT is not read, the record counts as updated and
\* is logged as a success; after a POST, response.data.data.id throws and the
\* record fails
PushRecordRefused(t) ==
    /\ task[t].pc = "push" /\ task[t].toSync # <<>>
    /\ LET record == Head(task[t].toSync)
           failed == record.railway_id = 0
       IN  /\ task' = [task EXCEPT ![t] =
                          [@ EXCEPT !.toSync = Tail(@),
                                    !.sent = Append(@, Sent(record)),
                                    !.refused = @ \cup {record.id},
                                    !.errors = IF failed THEN @ \cup {record.id} ELSE @]]
           /\ syncLog' = LogSync(syncLog,
                                 LogEntry("local_to_railway", record.id, PushAction(record),
                                          IF failed THEN "failed" ELSE "success"))
    /\ UNCHANGED <<local, peer, lastApplied, isSyncing, statusTbl, cloudVars, auth>>

\* one iteration whose POST the peer answered with the new record, after which
\* db.updateRecord(record.id, {...record, railway_id}) throws: the record's
\* catch logs it as failed and the local record keeps no railway_id
PushRecordUnstored(t) ==
    /\ task[t].pc = "push" /\ task[t].toSync # <<>>
    /\ LET record == Head(task[t].toSync)
           request == Request(record)
       IN  /\ request.method = "POST"
           /\ PeerAccepts(record)
           /\ peer' = PeerCreate(peer, NewPeerId, request.body)
           /\ task' = [task EXCEPT ![t] =
                          [@ EXCEPT !.toSync = Tail(@),
                                    !.sent = Append(@, Sent(record)),
                                    !.errors = @ \cup {record.id}]]
           /\ syncLog' = LogSync(syncLog,
                                 LogEntry("local_to_railway", record.id, PushAction(record),
                                          "failed"))
    /\ UNCHANGED <<local, lastApplied, isSyncing, statusTbl, cloudVars, auth>>

\* syncToRailway returns {created, updated, errors, total}
PushEnd(t) ==
    /\ task[t].pc = "push" /\ task[t].toSync = <<>>
    /\ Finish(t, EnterPhase([task[t] EXCEPT !.pushDone = TRUE, !.sent = <<>>],
                            task[t].plan, local))
    /\ UNCHANGED <<local, peer, syncLog, lastApplied, cloudVars, auth>>

\* a call of the database module rejects inside syncToRailway (getAllRecords,
\* logSync in the catch of a record): the outer catch logs and rethrows
StoreFails(t) ==
    /\ task[t].pc = "push"
    /\ Finish(t, [task[t] EXCEPT !.pc = "done", !.toSync = <<>>, !.sent = <<>>,
                                 !.outcome = "error"])
    /\ UNCHANGED <<local, peer, syncLog, lastApplied, cloudVars, auth>>

(***************************************************************************)
(* syncFromRailway.                                                        *)
(***************************************************************************)
PullSuccessEntry == LogEntry("railway_to_local_full", 0, "full_sync", "success")
\* (variant) the catch block logs the pull as a success
PullFailedEntryAsSuccess == LogEntry("railway_to_local_full", 0, "full_sync", "success")

PullFailedEntry == LogEntry("railway_to_local_full", 0, "full_sync", "failed")
DurationEntry == LogEntry("duration_analysis", 0, "duration_check", "completed")

\* the records a route handler wrote since the pull got the answer of the peer:
\* inserted (a new id, no railway_id yet) or given new values (the sync
\* service writes a record only to store its railway_id)
WrittenSince(before, now) ==
    {r \in now : /\ ~\E b \in before : b.id = r.id /\ b.data = r.data
                 /\ \A b \in before : b.id = r.id => b.railway_id = r.railway_id
                 /\ r.railway_id # 0 => \E b \in before : b.id = r.id}

\* axios.get(<peer>/api/productions/export)
PullFetch(t) ==
    /\ task[t].pc = "fetch"
    /\ \E ok \in BOOLEAN :
         IF ok
         THEN /\ \A r \in ConvertedRecords(PeerExport(peer), local, LocalIdsInUse) :
                    r.id <= MaxId
              /\ task' = [task EXCEPT ![t] =
                            [@ EXCEPT !.pc = "apply", !.snap = PeerExport(peer),
                                      !.atFetch = local]]
              /\ UNCHANGED <<isSyncing, statusTbl, syncLog>>
         ELSE /\ syncLog' = LogSync(syncLog, PullFailedEntry)
              /\ Finish(t, [task[t] EXCEPT !.pc = "done", !.outcome = "error"])
    /\ UNCHANGED <<local, peer, lastApplied, cloudVars, auth>>

\* getAllRecords, convert, detectDifferences, replaceAllRecords
PullApply(t) ==
    /\ task[t].pc = "apply"
    /\ LET converted == ConvertedRecords(task[t].snap, local, LocalIdsInUse)
       IN  /\ \A r \in converted : r.id <= MaxId
           /\ local' = ReplaceAllRecords(local, converted)
           /\ task' = [task EXCEPT ![t] =
                          [@ EXCEPT !.pc = "log",
                                    !.differences = DetectDifferences(local, converted),
                                    !.atFetch = {},
                                    !.written = WrittenSince(task[t].atFetch, local)]]
    /\ lastApplied' = [valid |-> TRUE, snap |-> task[t].snap,
                       again |-> lastApplied.valid /\ lastApplied.snap = task[t].snap]
    /\ UNCHANGED <<peer, isSyncing, syncLog, statusTbl, cloudVars, auth>>

\* the values Date.now() + Math.random() can take while the records are
\* mapped: later than every id in use, a few thousand doubles per millisecond
IdsOfNow == {i \in 1..MaxId : i \notin LocalIdsInUse}

\* the same step with the ids as the code draws them: each record unknown
\* locally gets its own draw of Date.now() + Math.random(), and two draws may
\* give the same number
PullApplyRandom(t) ==
    /\ task[t].pc = "apply"
    /\ \E draw \in [{r.id : r \in SeqToSet(task[t].snap)} -> IdsOfNow] :
          LET converted == {ConvertRecord(r, AssignId(local, r, draw[r.id])) :
                               r \in SeqToSet(task[t].snap)}
          IN  /\ local' = ReplaceAllRecords(local, converted)
              /\ task' = [task EXCEPT ![t] =
                             [@ EXCEPT !.pc = "log",
                                       !.differences = DetectDifferences(local, converted),
                                       !.atFetch = {},
                                       !.written = WrittenSince(task[t].atFetch, local)]]
    /\ lastApplied' = [valid |-> TRUE, snap |-> task[t].snap,
                       again |-> lastApplied.valid /\ lastApplied.snap = task[t].snap]
    /\ UNCHANGED <<peer, isSyncing, syncLog, statusTbl, cloudVars, auth>>

\* duration analysis and the full_sync entry, which takes the differences
\* along; syncFromRailway returns
PullLog(t) ==
    /\ task[t].pc = "log"
    /\ syncLog' = LogSync(LogSync(syncLog, DurationEntry), PullSuccessEntry)
    /\ Finish(t, EnterPhase([task[t] EXCEPT !.pulled = TRUE,
                                            !.differences = NoDifferences,
                                            !.written = {}],
                            task[t].plan, local))
    /\ UNCHANGED <<local, peer, lastApplied, cloudVars, auth>>

(***************************************************************************)
(* The handler answers its caller.                                         *)
(***************************************************************************)
RouteEntry(tk) ==
    IF tk.kind = "realtime"
    THEN LogEntry("realtime_bidirectional", tk.mut.id, tk.mut.action,
                  IF tk.outcome = "ok" THEN "completed" ELSE "sync_failed")
    ELSE LogEntry("local_to_railway_realtime", tk.mut.id, tk.mut.action, "completed")

\* (variant) a failed pass makes the route answer 500
RouteReplyFailing(tk) ==
    IF tk.outcome = "ok"
    THEN [NoReply EXCEPT !.status = 200, !.success = TRUE,
                         !.railway_push = "completed", !.railway_pull = "completed"]
    ELSE [NoReply EXCEPT !.status = 500]

\* res.json(...) / res.status(...).json(...) of the routes
RouteReply(tk) ==
    IF tk.kind = "realtime"
    THEN [NoReply EXCEPT !.status = 200, !.success = TRUE,
                         !.railway_push = IF tk.outcome = "ok" THEN "completed" ELSE "failed",
                         !.railway_pull = IF tk.outcome = "ok" THEN "completed" ELSE "failed"]
    ELSE IF tk.kind = "productions"
    THEN [NoReply EXCEPT !.status = 201, !.success = TRUE, !.synced_to_railway = TRUE]
    ELSE IF tk.outcome = "ok"
    THEN [NoReply EXCEPT !.status = 200, !.success = TRUE]
    ELSE [NoReply EXCEPT !.status = 500]

IsRoute(tk) == tk.kind \in {"realtime", "productions", "manualPull", "manualPush"}

\* the setInterval callback awaits performExcelToRailwaySync without a catch:
\* what the pass throws rejects the callback's promise, which nothing handles
TimerCallback(tk) ==
    IF tk.outcome = "error"
    THEN [IdleTask EXCEPT !.kind = "timer", !.pc = "rejected", !.outcome = "error"]
    ELSE IdleTask

\* the pass has returned: a route logs and answers, any other caller is done
Return(t) ==
    /\ task[t].pc = "done"
    /\ syncLog' = IF task[t].kind \in {"realtime", "productions"}
                  THEN LogSync(syncLog, RouteEntry(task[t]))
                  ELSE syncLog
    /\ task' = [task EXCEPT ![t] =
                  IF IsRoute(task[t]) THEN Replied(task[t], RouteReply(task[t]))
                  ELSE IF task[t].kind = "timer" THEN TimerCallback(task[t])
                  ELSE IdleTask]
    /\ UNCHANGED <<local, peer, isSyncing, statusTbl, lastApplied, cloudVars, auth>>

\* the response is out, the handler is gone
Close(t) ==
    /\ task[t].pc = "replied"
    /\ task' = [task EXCEPT ![t] = IdleTask]
    /\ UNCHANGED <<local, peer, isSyncing, syncLog, statusTbl, lastApplied, cloudVars, auth>>

\* the process reports the unhandled rejection and goes on
\* (--unhandled-rejections=warn); where it is set to throw, the process ends
\* here and no step follows
RejectionWarned(t) ==
    /\ task[t].pc = "rejected"
    /\ task' = [task EXCEPT ![t] = IdleTask]
    /\ UNCHANGED <<local, peer, isSyncing, syncLog, statusTbl, lastApplied, cloudVars, auth>>

(***************************************************************************)
(* Users of the peer change its store.                                     *)
(***************************************************************************)
\* the peer's store after one of its users saved d
PeerWritten(d) ==
    IF PeerHasKey(peer, KeyOf(d))
    THEN {IF KeyOf(r.data) = KeyOf(d) THEN [r EXCEPT !.data = d] ELSE r : r \in peer}
    ELSE PeerCreate(peer, NewPeerId, d)

PeerWrite(d) ==
    /\ IF PeerHasKey(peer, KeyOf(d))
       THEN /\ peer' = PeerWritten(d)
            /\ peer' # peer
       ELSE /\ NewPeerId <= MaxPeerId
            /\ peer' = PeerWritten(d)
    /\ UNCHANGED <<local, isSyncing, task, syncLog, statusTbl, lastApplied, cloudVars, auth>>

PeerDelete(pid) ==
    /\ PeerHasId(peer, pid)
    /\ peer' = {r \in peer : r.id # pid}
    /\ UNCHANGED <<local, isSyncing, task, syncLog, statusTbl, lastApplied, cloudVars, auth>>

(***************************************************************************)
(* The peer notifies the local server of a change it made.                 *)
(***************************************************************************)
\* POST /api/sync/from-railway {action, data}: answers success: false and
\* touches nothing
FromRailway(t, action, d) ==
    /\ Idle(t)
    /\ task' = [task EXCEPT ![t] =
                  Replied([IdleTask EXCEPT !.kind = "fromRailway",
                                           !.mut = [id |-> 0, action |-> action,
                                                    key |-> KeyOf(d)],
                                           !.outcome = "ok"],
                          [NoReply EXCEPT !.status = 200])]
    /\ UNCHANGED <<local, isSyncing, syncLog, statusTbl, lastApplied, cloudVars>>

\* a user of the peer saves d; notifyLocalServer('create' | 'update', d) is
\* awaited and delivered
PeerWriteNotified(t, d) ==
    /\ PeerHasKey(peer, KeyOf(d)) \/ NewPeerId <= MaxPeerId
    /\ peer' = PeerWritten(d)
    /\ peer' # peer
    /\ FromRailway(t, IF PeerHasKey(peer, KeyOf(d)) THEN "update" ELSE "create", d)
    /\ UNCHANGED auth

\* a user of the peer deletes a record; notifyLocalServer('delete', data)
PeerDeleteNotified(t, pid) ==
    /\ PeerHasId(peer, pid)
    /\ peer' = {r \in peer : r.id # pid}
    /\ FromRailway(t, "delete", (CHOOSE r \in peer : r.id = pid).data)
    /\ UNCHANGED auth

(***************************************************************************)
(* Cloud server: spreadsheet rows, table production_summary, routes.       *)
(***************************************************************************)
MaxRows == 2        \* rows of the spreadsheet

\* request bodies of the cloud routes: shot SH_01 by A, by B, approved by A; SH_02
CloudInputs == { Fields("A", "SH_01", "submitted", ""),
                 Fields("B", "SH_01", "submitted", "retake"),
                 Fields("A", "SH_01", "approved", ""),
                 Fields("A", "SH_02", "submitted", "") }

NoEntry == Fields(Null, Null, Null, Null)

\* Array.findIndex returns the first index of those that match
FirstIndex(S) == CHOOSE i \in S : \A j \in S : i <= j

\* the columns of UNIQUE(...) in table production_summary
UniqueKey(d) ==
    <<d.animator, d.project_type, d.episode_title, d.scene, d.shot, d.week_yyyymmdd>>

\* (variant) a duplicate is a row equal in all the unique columns of the table
DuplicateIndexAllColumns(data, newEntry) ==
    {i \in 1..Len(data) : UniqueKey(data[i]) = UniqueKey(newEntry)}

\* the duplicate test of POST /api/production-data
DuplicateIndex(data, newEntry) ==
    {i \in 1..Len(data) : KeyOf(data[i]) = KeyOf(newEntry)}

\* the row test of the webhook
ExistingIndex(data, e) ==
    {i \in 1..Len(data) : UniqueKey(data[i]) = UniqueKey(e)}

\* entryData.X || entryData.x with only X present: a falsy X gives undefined
OrUndefined(x) == IF x = "" THEN Null ELSE x

\* dbData of syncToDatabase
DbData(entryData) ==
    [animator |-> OrUndefined(entryData.animator),
     project_type |-> OrUndefined(entryData.project_type),
     episode_title |-> OrUndefined(entryData.episode_title),
     scene |-> OrUndefined(entryData.scene),
     shot |-> OrUndefined(entryData.shot),
     week_yyyymmdd |-> OrUndefined(entryData.week_yyyymmdd),
     status |-> OrUndefined(entryData.status),
     notes |-> OrUndefined(entryData.notes)]

\* NOT NULL and CHECK constraints of table production_summary
RowAllowed(d) ==
    /\ \A f \in {"animator", "project_type", "episode_title", "scene", "shot",
                 "week_yyyymmdd"} : d[f] # Null
    /\ d.status \in {"submitted", "approved", "revision"}

\* INSERT OR REPLACE: a row with the same unique columns is deleted, then the
\* new row is inserted (table rows are kept without their surrogate id)
InsertData(table, data) ==
    IF RowAllowed(data)
    THEN [ok |-> TRUE,
          table |-> {r \in table : UniqueKey(r) # UniqueKey(data)} \cup {data}]
    ELSE [ok |-> FALSE, table |-> table]

\* the row db.logSync adds; n tells one row from the next
CloudLogEntry(status) ==
    [n |-> 1 - cloudLog.n, sync_type |-> "local_to_cloud", action |-> "insert",
     status |-> status]

\* syncToDatabase, called with the database enabled
SyncToDatabase(entryData) ==
    LET result == InsertData(cloudDb, DbData(entryData)) IN
    /\ cloudDb' = result.table
    /\ cloudLog' = CloudLogEntry(IF result.ok THEN "success" ELSE "failed")

\* notifyLocalServer(action, data): the payload keeps the identity key of data;
\* n tells one notification from the next
NotifyLocalServer(action, e, outcome) ==
    notified' = [n |-> 1 - notified.n, action |-> action, key |-> KeyOf(e),
                 outcome |-> outcome]

\* how a call of notifyLocalServer ends: no LOCAL_SERVER_URL, the POST answered
\* 2xx, the POST failed (unreachable, timeout, non-2xx)
NotifyOutcomes == {"skipped", "delivered", "failed"}

\* (variant) a failed notification fails the request
NotifiedStatusPropagating(outcome) == IF outcome = "failed" THEN 500 ELSE 200

\* status of the answer sent once the notification has returned
NotifiedStatus(outcome) == 200

\* what a request was answered; a refused create is kept with its body
Response(op, status, req) == [op |-> op, status |-> status, req |-> req]

\* productionData of the page once loadProductionData has run
Loaded(data) == [productionData |-> data, request |-> "none", index |-> 0]

InitCloud ==
    /\ excel = <<>>
    /\ cloudDb = {}
    /\ cloudLog = [n |-> 0, sync_type |-> "none", action |-> "none", status |-> "none"]
    /\ dbEnabled = FALSE
    /\ notified = [n |-> 0, action |-> "none", key |-> <<>>, outcome |-> "none"]
    /\ resp = Response("none", 0, NoEntry)
    /\ startup = [pc |-> "sync", round |-> 1, attempt |-> 0, fetches |-> 0,
                  delays |-> 0, scheduled |-> 0, listening |-> FALSE,
                  result |-> "none", returned |-> [kind |-> "pending", data |-> <<>>]]
    /\ fetched = [reply |-> [format |-> "none", data |-> <<>>],
                  called |-> FALSE, threw |-> FALSE]
    /\ shown = Loaded(<<>>)

\* sqlite3.Database open callback / close()
DbOpened ==
    /\ ~dbEnabled
    /\ dbEnabled' = TRUE
    /\ UNCHANGED <<excel, cloudDb, cloudLog, notified, resp, localVars, shown, startup, fetched, auth>>

DbClose ==
    /\ dbEnabled
    /\ dbEnabled' = FALSE
    /\ UNCHANGED <<excel, cloudDb, cloudLog, notified, resp, localVars, shown, startup, fetched, auth>>

\* POST /api/production-data
CloudCreate(newEntry) ==
    /\ IF DuplicateIndex(excel, newEntry) # {}
       THEN /\ resp' = Response("create", 400, newEntry)
            /\ UNCHANGED <<excel, cloudDb, cloudLog, notified>>
       ELSE /\ Len(excel) < MaxRows
            /\ \E excelSuccess \in BOOLEAN :
                  IF ~excelSuccess
                  THEN /\ resp' = Response("create", 500, NoEntry)
                       /\ UNCHANGED <<excel, cloudDb, cloudLog, notified>>
                  ELSE /\ excel' = Append(excel, newEntry)
                       /\ IF dbEnabled THEN SyncToDatabase(newEntry)
                                       ELSE UNCHANGED <<cloudDb, cloudLog>>
                       /\ \E outcome \in NotifyOutcomes :
                             /\ NotifyLocalServer("create", newEntry, outcome)
                             /\ resp' = Response("create", NotifiedStatus(outcome), NoEntry)
    /\ UNCHANGED <<dbEnabled, localVars, shown, startup, fetched, auth>>

\* PUT /api/production-data/:index (rows counted from 1 here)
CloudUpdate(index, updatedEntry) ==
    /\ IF index \notin 1..Len(excel)
       THEN /\ resp' = Response("update", 404, NoEntry)
            /\ UNCHANGED <<excel, cloudDb, cloudLog, notified>>
       ELSE \E excelSuccess \in BOOLEAN :
               IF ~excelSuccess
               THEN /\ resp' = Response("update", 500, NoEntry)
                    /\ UNCHANGED <<excel, cloudDb, cloudLog, notified>>
               ELSE /\ excel' = [excel EXCEPT ![index] = updatedEntry]
                    /\ IF dbEnabled THEN SyncToDatabase(updatedEntry)
                                    ELSE UNCHANGED <<cloudDb, cloudLog>>
                    /\ \E outcome \in NotifyOutcomes :
                          /\ NotifyLocalServer("update", updatedEntry, outcome)
                          /\ resp' = Response("update", NotifiedStatus(outcome), NoEntry)
    /\ UNCHANGED <<dbEnabled, localVars, startup, fetched, auth>>

RemoveAt(s, i) == SubSeq(s, 1, i - 1) \o SubSeq(s, i + 1, Len(s))

\* DELETE /api/production-data/:index
CloudDelete(index) ==
    /\ IF index \notin 1..Len(excel)
       THEN /\ resp' = Response("delete", 404, NoEntry)
            /\ UNCHANGED <<excel, notified>>
       ELSE \E excelSuccess \in BOOLEAN :
               IF ~excelSuccess
               THEN /\ resp' = Response("delete", 500, NoEntry)
                    /\ UNCHANGED <<excel, notified>>
               ELSE /\ excel' = RemoveAt(excel, index)
                    /\ \E outcome \in NotifyOutcomes :
                          /\ NotifyLocalServer("delete", excel[index], outcome)
                          /\ resp' = Response("delete", NotifiedStatus(outcome), NoEntry)
    /\ UNCHANGED <<cloudDb, cloudLog, dbEnabled, localVars, startup, fetched, auth>>

\* syncFromDatabase: one row of the table in the spreadsheet's format
ExcelRow(row) ==
    [animator |-> row.animator, project_type |-> row.project_type,
     episode_title |-> row.episode_title, scene |-> row.scene, shot |-> row.shot,
     week_yyyymmdd |-> row.week_yyyymmdd, status |-> row.status, notes |-> row.notes]

\* the lists without repetition of the elements of S
Orderings(S) ==
    {s \in [1..Cardinality(S) -> S] : \A i, j \in 1..Cardinality(S) : s[i] = s[j] => i = j}

\* the body GET /api/production-data may answer: with the database enabled the
\* rows of the table ORDER BY updated_at DESC, a column of one-second
\* resolution that leaves the order of rows written in the same second open;
\* otherwise the rows of the spreadsheet
GetProductionData ==
    IF dbEnabled THEN Orderings({ExcelRow(r) : r \in cloudDb}) ELSE {excel}

\* loadProductionData of the page: GET /api/production-data
LoadProductionData ==
    /\ \E data \in GetProductionData : shown' = Loaded(data)
    /\ resp' = Response("get", 200, NoEntry)
    /\ UNCHANGED <<excel, cloudDb, cloudLog, dbEnabled, notified, localVars, startup,
                   fetched, auth>>

\* saveEdit of the page: PUT /api/production-data/<currentEditIndex> with the
\* item of productionData at that index, its four editable fields taken from
\* the form (rows counted from 1 here)
SaveEdit(index, form) ==
    /\ shown.request = "none"
    /\ index \in 1..Len(shown.productionData)
    /\ CloudUpdate(index, [shown.productionData[index] EXCEPT
                              !.animator = form.animator,
                              !.week_yyyymmdd = form.week_yyyymmdd,
                              !.status = form.status,
                              !.notes = form.notes])
    /\ shown' = [shown EXCEPT !.request = "update", !.index = index]

\* deleteEntry of the page: DELETE /api/production-data/<index>
DeleteEntry(index) ==
    /\ shown.request = "none"
    /\ index \in 1..Len(shown.productionData)
    /\ CloudDelete(index)
    /\ shown' = [shown EXCEPT !.request = "delete", !.index = index]

\* POST /webhook/sync-from-cloud, action data_updated
Webhook(data) ==
    /\ LET existingIndex == ExistingIndex(excel, data)
           excelData == IF existingIndex # {}
                        THEN [excel EXCEPT ![FirstIndex(existingIndex)] = data]
                        ELSE Append(excel, data)
       IN /\ Len(excelData) <= MaxRows
          /\ \E excelSuccess \in BOOLEAN :
                excel' = IF excelSuccess THEN excelData ELSE excel
    /\ resp' = Response("webhook", 200, NoEntry)
    /\ UNCHANGED <<cloudDb, cloudLog, dbEnabled, notified, localVars, shown, startup, fetched, auth>>

(***************************************************************************)
(* SQLiteManager.updateData on the peer's table, rows with their ids.      *)
(***************************************************************************)
\* UPDATE production_summary SET ... WHERE id = ?
UpdateData(table, id, data) ==
    {IF r.id = id THEN [r EXCEPT !.data = data] ELSE r : r \in table}

\* a call of db.updateData(id, data): it throws without a connection, else it
\* runs the UPDATE and returns {id, updated_at} whatever the rows it changed
UpdateDataCall(id, data) ==
    /\ IF ~dbEnabled
       THEN /\ resp' = Response("updateData", 500, NoEntry)
            /\ UNCHANGED peer
       ELSE /\ \A r \in peer : r.id = id => r.data # data
            /\ peer' = UpdateData(peer, id, data)
            /\ resp' = Response("updateData", 200, NoEntry)
    /\ UNCHANGED <<local, isSyncing, task, syncLog, statusTbl, lastApplied,
                   excel, cloudDb, cloudLog, dbEnabled, notified, startup, fetched,
                   shown, auth>>

(***************************************************************************)
(* Cloud server: initializeApp and the startup pull from the local server. *)
(***************************************************************************)
\* fetchFromLocalServerWithRetry(maxRetries = 3, ...)
maxRetries == 3

\* the records GET <local>/api/productions may carry
StartupData == { <<>>,
                 <<Fields("A", "SH_01", "submitted", "")>>,
                 <<Fields("A", "SH_01", "approved", ""),
                   Fields("A", "SH_02", "submitted", "")>> }

\* how the request ends: the body is a bare array of records, the body is the
\* envelope {success, data, count}, or there is no answer (not configured,
\* unreachable, timeout, non-2xx)
LocalReplies ==
    {[format |-> f, data |-> d] : f \in {"array", "envelope"}, d \in StartupData}
    \cup {[format |-> "none", data |-> <<>>]}

\* what a call returned: an array (kind "data"), null, or nothing yet; kind
\* "thrown": it threw
Pending == [kind |-> "pending", data |-> <<>>]
NullResult == [kind |-> "null", data |-> <<>>]

\* (variant) the error of the request is thrown on
FetchFromLocalServerRethrowing(reply) ==
    IF reply.format = "array" THEN [kind |-> "data", data |-> reply.data]
    ELSE IF reply.format = "none" THEN [kind |-> "thrown", data |-> <<>>]
    ELSE NullResult

\* fetchFromLocalServer: response.data if it is an array, null otherwise and on
\* any error
FetchFromLocalServer(reply) ==
    IF reply.format = "array" THEN [kind |-> "data", data |-> reply.data]
    ELSE NullResult

\* (variant) any array is returned
NonEmptyAnyArray(data) == data.kind = "data"

\* data && data.length > 0 in fetchFromLocalServerWithRetry
NonEmpty(data) == data.kind = "data" /\ data.data # <<>>

\* (variant) any array is stored
UsableAnyArray(localServerData) == localServerData.kind = "data"

\* localServerData && localServerData.length > 0 before db.replaceAllRecords
Usable(localServerData) == localServerData.kind = "data" /\ localServerData.data # <<>>

\* (variant) one attempt more
MoreAttemptsOneMore(attempt) == attempt <= maxRetries

\* attempt < maxRetries: a delay and a further attempt follow
MoreAttempts(attempt) == attempt < maxRetries

\* the fetch just made: the answer, whether db.replaceAllRecords was called
\* with its data and whether that call threw
Fetch(reply, called, threw) == [reply |-> reply, called |-> called, threw |-> threw]

\* syncFromLocalExcelFile has returned: initializeApp arms the single deferred
\* round after a failed first round; the callback of the timer arms nothing
RoundOver(s, ok) ==
    IF s.round = 1 /\ ~ok
    THEN [s EXCEPT !.pc = "deferred", !.scheduled = @ + 1, !.listening = TRUE,
                   !.result = "failed"]
    ELSE [s EXCEPT !.pc = "done", !.listening = TRUE,
                   !.result = IF ok THEN "synced" ELSE "failed"]

\* syncFromLocalExcelFile, entry: without a database the round fails at once
StartRound ==
    /\ startup.pc = "sync"
    /\ startup' = IF ~dbEnabled THEN RoundOver(startup, FALSE)
                  ELSE [startup EXCEPT !.pc = "fetch", !.attempt = 1, !.fetches = 0,
                                       !.delays = 0, !.returned = Pending]
    /\ UNCHANGED <<excel, cloudDb, cloudLog, dbEnabled, notified, resp, localVars, shown,
                   fetched, auth>>

\* db.replaceAllRecords(localServerData) of the cloud server's database module:
\* the table becomes the given records, or the call throws and the table stays
ReplaceAll(reply, localServerData, stored) ==
    /\ stored => dbEnabled
    /\ cloudDb' = IF stored THEN SeqToSet(localServerData.data) ELSE cloudDb
    /\ fetched' = Fetch(reply, TRUE, ~stored)

\* fetchFromLocalServerWithRetry has returned result (or thrown) to
\* syncFromLocalExcelFile, which stores data that is not empty and fails the
\* round otherwise
Returned(s, reply, result) ==
    LET r == [s EXCEPT !.returned = result] IN
    IF result.kind = "data" /\ Usable(result)
    THEN \E stored \in BOOLEAN :
            /\ ReplaceAll(reply, result, stored)
            /\ startup' = RoundOver(r, stored)
    ELSE /\ startup' = RoundOver(r, FALSE)
         /\ fetched' = Fetch(reply, FALSE, FALSE)
         /\ UNCHANGED cloudDb

\* one attempt of fetchFromLocalServerWithRetry
FetchAttempt ==
    /\ startup.pc = "fetch"
    /\ \E reply \in LocalReplies :
          LET data == FetchFromLocalServer(reply)
              s == [startup EXCEPT !.fetches = @ + 1]
          IN  IF data.kind # "thrown" /\ NonEmpty(data)
              THEN Returned(s, reply, data)
              ELSE IF MoreAttempts(startup.attempt)
              THEN /\ startup' = [s EXCEPT !.pc = "delay"]
                   /\ fetched' = Fetch(reply, FALSE, FALSE)
                   /\ UNCHANGED cloudDb
              ELSE Returned(s, reply, IF data.kind = "thrown" THEN data ELSE NullResult)
    /\ UNCHANGED <<excel, cloudLog, dbEnabled, notified, resp, localVars, shown, auth>>

\* the retryDelay timer fires: next attempt
RetryDelay ==
    /\ startup.pc = "delay"
    /\ startup' = [startup EXCEPT !.pc = "fetch", !.attempt = @ + 1, !.delays = @ + 1]
    /\ UNCHANGED <<excel, cloudDb, cloudLog, dbEnabled, notified, resp, localVars, shown,
                   fetched, auth>>

\* the 30 s timer fires: the delayed startup sync
DeferredRound ==
    /\ startup.pc = "deferred"
    /\ startup' = [startup EXCEPT !.pc = "sync", !.round = 2]
    /\ UNCHANGED <<excel, cloudDb, cloudLog, dbEnabled, notified, resp, localVars, shown,
                   fetched, auth>>

\* GET /api/production-data/with-local-sync (page refresh): one fetch, the
\* table replaced by data that is not empty, then the table is answered
WithLocalSync ==
    /\ \E reply \in LocalReplies :
          LET localServerData == FetchFromLocalServer(reply) IN
          IF localServerData.kind = "data" /\ Usable(localServerData)
          THEN \E stored \in BOOLEAN : ReplaceAll(reply, localServerData, stored)
          ELSE /\ fetched' = Fetch(reply, FALSE, FALSE)
               /\ UNCHANGED cloudDb
    /\ \E answered \in BOOLEAN :
          resp' = Response("refresh", IF answered THEN 200 ELSE 500, NoEntry)
    /\ UNCHANGED <<excel, cloudLog, dbEnabled, notified, startup, localVars, shown, auth>>

StartupStep == StartRound \/ FetchAttempt \/ RetryDelay \/ DeferredRound

(***************************************************************************)
(* Local server: the authenticateAPI middleware in front of the routes.    *)
(***************************************************************************)
\* values of the x-api-key header and of the apiKey query parameter (Null: not
\* sent), values of process.env.API_SECRET (Null: not set)
Keys == {Null, "k1", "k2"}
Secrets == {Null, "k1"}

\* (variant) any key is accepted
AuthenticateAPIAnyKey(header, query, expectedKey) ==
    LET apiKey == IF header # Null THEN header ELSE query
    IN  IF expectedKey = Null THEN "next"
        ELSE IF apiKey = Null THEN "401"
        ELSE "next"

\* authenticateAPI: "next" calls the handler, "401" answers the request
AuthenticateAPI(header, query, expectedKey) ==
    LET apiKey == IF header # Null THEN header ELSE query
    IN  IF expectedKey = Null THEN "next"
        ELSE IF apiKey = Null \/ apiKey # expectedKey THEN "401"
        ELSE "next"

\* no request body kept
NoBody == <<>>

NoAuth == [secret |-> Null, header |-> Null, query |-> Null, route |-> "none",
           verdict |-> "none", n |-> 0, body |-> NoBody]

\* the request as the middleware saw it; n tells one request from the next
Seen(route, header, query, verdict) ==
    [secret |-> auth.secret, header |-> header, query |-> query, route |-> route,
     verdict |-> verdict, n |-> 1 - auth.n, body |-> NoBody]

\* res.status(401).json({error: 'Invalid or missing API key'})
Unauthorized(t, route) ==
    /\ Refuse(t, route, NoMut, 401)
    /\ UNCHANGED <<local, peer, isSyncing, syncLog, statusTbl, lastApplied, cloudVars>>

\* the routes registered with authenticateAPI
GuardedRoutes == {"productions", "manualPull", "manualPush", "fromRailway"}

\* the handler behind the middleware
Handler(t, route) ==
    \/ route = "productions" /\ \E d \in LocalInputs : ProductionsCreate(t, d)
    \/ route = "manualPull" /\ ManualPull(t)
    \/ route = "manualPush" /\ ManualPush(t)
    \/ /\ route = "fromRailway"
       /\ \E d \in PeerInputs : FromRailway(t, "create", d)
       /\ UNCHANGED peer

\* a request to a route registered with authenticateAPI
GuardedRequest(t, header, query) ==
    /\ Idle(t)
    /\ \E route \in GuardedRoutes :
          LET verdict == AuthenticateAPI(header, query, auth.secret) IN
          /\ auth' = Seen(route, header, query, verdict)
          /\ IF verdict = "next" THEN Handler(t, route) ELSE Unauthorized(t, route)

\* a request to /api/production-data, registered without the middleware
UnguardedRequest(t, header, query) ==
    /\ auth' = Seen("production-data", header, query, "none")
    /\ \/ \E d \in LocalInputs : DataCreate(t, d)
       \/ \E id \in 1..MaxId, d \in LocalInputs : DataUpdate(t, id, d)
       \/ \E id \in 1..MaxId : DataDelete(t, id)

(***************************************************************************)
(* Local server: the /api/production-data routes in the frontend's format. *)
(***************************************************************************)
Columns == {"Animator", "Project Type", "Episode/Title", "Scene", "Shot",
            "Week (YYYYMMDD)", "Status", "Notes"}

\* a row as the frontend sends and receives it
Frontend(an, pt, ep, sc, sh, wk, st, nt) ==
    "Animator" :> an @@ "Project Type" :> pt @@ "Episode/Title" :> ep
    @@ "Scene" :> sc @@ "Shot" :> sh @@ "Week (YYYYMMDD)" :> wk
    @@ "Status" :> st @@ "Notes" :> nt

\* request bodies: complete rows, a row with a status of another vocabulary,
\* a row without Notes, a row without Animator
FrontendInputs ==
    { Frontend("A", "long-form", "Ep1", "SC_01", "SH_01", "20250106", "submitted", "fix"),
      Frontend("A", "long-form", "Ep1", "SC_01", "SH_01", "20250106", "approved", "ok"),
      Frontend("A", "long-form", "Ep1", "SC_01", "SH_01", "20250106", "needs-revision", "ok"),
      Frontend("B", "long-form", "Ep1", "SC_01", "SH_02", "20250106", "revision", Null),
      Frontend(Null, "long-form", "Ep1", "SC_01", "SH_02", "20250106", "submitted", "x") }

\* (variant) the Notes column is not taken over
ToDbWithoutNotes(frontendData) ==
    [animator |-> frontendData["Animator"],
     project_type |-> frontendData["Project Type"],
     episode_title |-> frontendData["Episode/Title"],
     scene |-> frontendData["Scene"],
     shot |-> frontendData["Shot"],
     week_yyyymmdd |-> frontendData["Week (YYYYMMDD)"],
     status |-> frontendData["Status"],
     notes |-> ""]

\* dbData of POST and PUT /api/production-data
ToDb(frontendData) ==
    [animator |-> frontendData["Animator"],
     project_type |-> frontendData["Project Type"],
     episode_title |-> frontendData["Episode/Title"],
     scene |-> frontendData["Scene"],
     shot |-> frontendData["Shot"],
     week_yyyymmdd |-> frontendData["Week (YYYYMMDD)"],
     status |-> frontendData["Status"],
     notes |-> OrEmpty(frontendData["Notes"])]

\* one element of frontendData of GET /api/production-data
ToFrontend(record) ==
    Frontend(record.data.animator, record.data.project_type,
             record.data.episode_title, record.data.scene, record.data.shot,
             record.data.week_yyyymmdd, record.data.status, record.data.notes)
    @@ "_id" :> record.id @@ "_railway_id" :> record.railway_id

\* !x of JS for a text field
Falsy(x) == x = Null \/ x = ""

\* the required-fields test of POST /api/production-data
MissingRequired(dbData) ==
    \E f \in {"animator", "project_type", "episode_title", "scene", "shot",
               "week_yyyymmdd", "status"} : Falsy(dbData[f])

\* the request as it came in; n tells one request from the next
Body(frontendData) ==
    [NoAuth EXCEPT !.secret = auth.secret, !.route = "production-data",
                   !.n = 1 - auth.n, !.body = frontendData]

\* POST /api/production-data with a body in the frontend's format
FrontendCreate(t, frontendData) ==
    /\ auth' = Body(frontendData)
    /\ IF MissingRequired(ToDb(frontendData))
       THEN /\ Idle(t)
            /\ Refuse(t, "realtime", NoMut, 400)
            /\ UNCHANGED <<local, peer, isSyncing, syncLog, statusTbl, lastApplied,
                           cloudVars>>
       ELSE DataCreate(t, ToDb(frontendData))

\* PUT /api/production-data/:id with a body in the frontend's format
FrontendUpdate(t, id, frontendData) ==
    /\ auth' = Body(frontendData)
    /\ DataUpdate(t, id, ToDb(frontendData))

Init == InitLocal /\ InitCloud /\ auth = NoAuth

Next ==
    \E t \in Tasks :
          \/ Tick(t)
          \/ ManualPull(t) /\ UNCHANGED auth
          \/ ManualPush(t) /\ UNCHANGED auth
          \/ \E d \in LocalInputs : ProductionsCreate(t, d) /\ UNCHANGED auth
          \/ \E d \in LocalInputs : DataCreate(t, d) /\ UNCHANGED auth
          \/ RealtimeWake(t)
          \/ PushRecord(t)
          \/ PushEnd(t)
          \/ PullFetch(t)
          \/ PullApply(t)
          \/ PullLog(t)
          \/ Return(t)
          \/ Close(t)

\* the handlers of the local server interleaved on its event loop
Spec == Init /\ [][Next]_vars

(***************************************************************************)
(* One handler at a time, the peer changing only between handlers.         *)
(***************************************************************************)
AllIdle == \A t \in Tasks : Idle(t)

NextSeq ==
    \/ /\ AllIdle
       /\ \/ Tick(1)
          \/ RailwaySync(1)
          \/ BidirectionalSync(1)
          \/ ManualPull(1) /\ UNCHANGED auth
          \/ ManualPush(1) /\ UNCHANGED auth
          \/ \E d \in LocalInputs : ProductionsCreate(1, d) /\ UNCHANGED auth
          \/ \E d \in LocalInputs : DataCreate(1, d) /\ UNCHANGED auth
          \/ \E id \in 1..MaxId, d \in LocalInputs : DataUpdate(1, id, d) /\ UNCHANGED auth
          \/ \E id \in 1..MaxId : DataDelete(1, id) /\ UNCHANGED auth
          \/ \E d \in PeerInputs : PeerWrite(d)
          \/ \E pid \in 1..MaxPeerId : PeerDelete(pid)
          \/ \E d \in PeerInputs : PeerWriteNotified(1, d)
          \/ \E pid \in 1..MaxPeerId : PeerDeleteNotified(1, pid)
    \/ PushRecord(1)
    \/ PushEnd(1)
    \/ PullFetch(1)
    \/ PullApply(1)
    \/ PullLog(1)
    \/ Return(1)
    \/ Close(1)

SpecSeq == Init /\ [][NextSeq]_vars

\* every await of a handler in flight returns: each network call answers or
\* times out, each database call completes
HandlerStep(t) ==
    \/ PushRecord(t) \/ PushEnd(t) \/ PullFetch(t) \/ PullApply(t) \/ PullLog(t)
    \/ Return(t) \/ Close(t)

SpecSeqFair == SpecSeq /\ WF_vars(HandlerStep(1))

(***************************************************************************)
(* One handler at a time, the database module failing at will.             *)
(***************************************************************************)
NextStoreFails ==
    \/ NextSeq
    \/ StoreFails(1)
    \/ RejectionWarned(1)

SpecStoreFails == Init /\ [][NextStoreFails]_vars

(***************************************************************************)
(* One handler at a time, the peer also answering 2xx with success: false. *)
(***************************************************************************)
NextReplies ==
    \/ NextSeq
    \/ PushRecordRefused(1)

SpecReplies == Init /\ [][NextReplies]_vars

(***************************************************************************)
(* Push passes only, one at a time, the local database module failing at   *)
(* will when the id of a created peer record is stored.                    *)
(***************************************************************************)
NextPushes ==
    \/ /\ AllIdle
       /\ \/ Tick(1)
          \/ ManualPush(1) /\ UNCHANGED auth
    \/ PushRecord(1)
    \/ PushRecordUnstored(1)
    \/ PushEnd(1)
    \/ Return(1)
    \/ Close(1)

SpecPushes == Init /\ [][NextPushes]_vars

(***************************************************************************)
(* Requests to the routes of the local server, with or without API_SECRET. *)
(***************************************************************************)
InitAuth ==
    /\ InitLocal
    /\ InitCloud
    /\ auth \in {[NoAuth EXCEPT !.secret = k] : k \in Secrets}

NextAuth ==
    \/ /\ AllIdle
       /\ \E header \in Keys, query \in Keys :
             \/ GuardedRequest(1, header, query)
             \/ UnguardedRequest(1, header, query)
    \/ HandlerStep(1)

SpecAuth == InitAuth /\ [][NextAuth]_vars

(***************************************************************************)
(* Pulls, one at a time, with the ids of new records drawn at random.      *)
(***************************************************************************)
NextPulls ==
    \/ /\ AllIdle
       /\ \/ RailwaySync(1)
          \/ ManualPull(1) /\ UNCHANGED auth
          \/ \E d \in PeerInputs : PeerWrite(d)
          \/ \E pid \in 1..MaxPeerId : PeerDelete(pid)
    \/ PushRecord(1)
    \/ PushEnd(1)
    \/ PullFetch(1)
    \/ PullApplyRandom(1)
    \/ PullLog(1)
    \/ Return(1)
    \/ Close(1)

SpecPulls == Init /\ [][NextPulls]_vars

(***************************************************************************)
(* The /api/production-data routes called by the frontend, one at a time.  *)
(***************************************************************************)
NextFormat ==
    \/ /\ AllIdle
       /\ \/ \E body \in FrontendInputs : FrontendCreate(1, body)
          \/ \E id \in 1..MaxId, body \in FrontendInputs : FrontendUpdate(1, id, body)
          \/ \E id \in 1..MaxId : DataDelete(1, id) /\ UNCHANGED auth
    \/ HandlerStep(1)

SpecFormat == Init /\ [][NextFormat]_vars

(***************************************************************************)
(* The /api/production-data routes interleaved on the event loop.          *)
(***************************************************************************)
NextRoutes ==
    \E t \in Tasks :
          \/ \E d \in LocalInputs : DataCreate(t, d) /\ UNCHANGED auth
          \/ \E id \in 1..MaxId, d \in LocalInputs : DataUpdate(t, id, d) /\ UNCHANGED auth
          \/ \E id \in 1..MaxId : DataDelete(t, id) /\ UNCHANGED auth
          \/ RealtimeWake(t)
          \/ HandlerStep(t)

SpecRoutes == Init /\ [][NextRoutes]_vars

(***************************************************************************)
(* The cloud server serving one request at a time.                         *)
(***************************************************************************)
NextCloud ==
    \/ DbOpened
    \/ DbClose
    \/ \E e \in CloudInputs : CloudCreate(e)
    \/ \E i \in 1..MaxRows, e \in CloudInputs : CloudUpdate(i, e) /\ UNCHANGED shown
    \/ \E i \in 1..MaxRows : CloudDelete(i) /\ UNCHANGED shown
    \/ \E e \in CloudInputs : Webhook(e)

SpecCloud == Init /\ [][NextCloud]_vars

(***************************************************************************)
(* The peer's table written by its users and through db.updateData.        *)
(***************************************************************************)
NextPeerDb ==
    \/ DbOpened
    \/ DbClose
    \/ \E d \in PeerInputs : PeerWrite(d)
    \/ \E pid \in 1..MaxPeerId : PeerDelete(pid)
    \/ \E id \in 1..MaxPeerId, e \in CloudInputs : UpdateDataCall(id, e)

SpecPeerDb == Init /\ [][NextPeerDb]_vars

(***************************************************************************)
(* A page of the cloud server's frontend among the requests of others.     *)
(***************************************************************************)
\* the others create the two shots as submitted by A; the form of the page
\* sets a record to approved
NextPage ==
    \/ DbOpened
    \/ LoadProductionData
    \/ \E i \in 1..MaxRows, form \in {e \in CloudInputs : e.status = "approved"} :
          SaveEdit(i, form)
    \/ \E i \in 1..MaxRows : DeleteEntry(i)
    \/ \E e \in {e \in CloudInputs : e.animator = "A" /\ e.status = "submitted"} :
          CloudCreate(e)
    \/ \E i \in 1..MaxRows : CloudDelete(i) /\ UNCHANGED shown

SpecPage == Init /\ [][NextPage]_vars

(***************************************************************************)
(* The cloud server starting up: requests are served once initializeApp    *)
(* has resolved (initializeApp().then(() => app.listen(...))).             *)
(***************************************************************************)
NextStartup ==
    \/ StartRound
    \/ FetchAttempt
    \/ RetryDelay
    \/ DeferredRound
    \/ DbOpened
    \/ DbClose
    \/ startup.listening /\ \E e \in CloudInputs : CloudCreate(e)

SpecStartup == Init /\ [][NextStartup]_vars

\* every await of the startup returns and both timers fire
SpecStartupFair == SpecStartup /\ WF_vars(StartupStep)

(***************************************************************************)
(* The cloud server's table written from the local server's data only: at  *)
(* startup and on page refresh.                                            *)
(***************************************************************************)
NextRefresh ==
    \/ StartRound
    \/ FetchAttempt
    \/ RetryDelay
    \/ DeferredRound
    \/ DbOpened
    \/ DbClose
    \/ startup.listening /\ WithLocalSync

SpecRefresh == Init /\ [][NextRefresh]_vars

(***************************************************************************)
(* Claims about the local server.                                          *)
(***************************************************************************)
InSync(t) == task[t].pc \in {"push", "fetch", "apply", "log"}

\* C1: at most one execution of syncToRailway or syncFromRailway is between its
\* start and its end, whatever triggers are interleaved.
C1_SingleFlight == Cardinality({t \in Tasks : InSync(t)}) <= 1

\* C2: in every bidirectional pass (performBidirectionalSync and
\* performRealtimeBidirectionalSync) the push has returned before the peer
\* snapshot is fetched.
C2_PushBeforeFetch ==
    \A t \in Tasks :
        (task[t].kind \in {"bidir", "realtime"} /\ task[t].pc = "apply")
            => task[t].pushDone

RealtimeSucceeded(t) ==
    task[t].kind = "realtime" /\ task[t].pc = "done" /\ task[t].outcome = "ok"

\* C3: when performRealtimeBidirectionalSync returns success after a local create
\* or update, the local store still holds a record with that identity key.
C3_MutationSurvivesPass ==
    \A t \in Tasks :
        (RealtimeSucceeded(t) /\ task[t].mut.action \in {"create", "update"})
            => HasKey(local, task[t].mut.key)

\* the local store holds one record per record of the snapshot, with railway_id
\* the peer's id and the fields as Shown(fields), and nothing else
StoreMirrors(snap, Shown(_)) ==
    /\ Cardinality(local) = Len(snap)
    /\ \A i \in 1..Len(snap) :
          \E l \in local : l.railway_id = snap[i].id /\ l.data = Shown(snap[i].data)
    /\ \A l \in local : \E i \in 1..Len(snap) : l.railway_id = snap[i].id

SameFields(d) == d

\* the eight fields as syncFromRailway stores them: a missing one becomes ''
StoredFields(d) ==
    [animator |-> OrEmpty(d.animator), project_type |-> OrEmpty(d.project_type),
     episode_title |-> OrEmpty(d.episode_title), scene |-> OrEmpty(d.scene),
     shot |-> OrEmpty(d.shot), week_yyyymmdd |-> OrEmpty(d.week_yyyymmdd),
     status |-> OrEmpty(d.status), notes |-> OrEmpty(d.notes)]

\* the pull of handler t has returned and nothing ran after it
PullReturned(t) == task[t].pulled /\ task[t].pc = "done"

\* C4 (as claimed): after a pull returns successfully the local store is exactly
\* the fetched snapshot: one record per peer record with the same eight fields
\* and railway_id the peer's id, and no other record.
C4_StoreIsSnapshot ==
    \A t \in Tasks : PullReturned(t) => StoreMirrors(task[t].snap, SameFields)

\* C4 (amended): the same, a field the peer left null being stored as ''.
C4_StoreIsSnapshotNullAsEmpty ==
    \A t \in Tasks : PullReturned(t) => StoreMirrors(task[t].snap, StoredFields)

C4_Witness ==
    \E t \in Tasks :
        /\ PullReturned(t)
        /\ Len(task[t].snap) = 2
        /\ \E i \in 1..Len(task[t].snap) : task[t].snap[i].data.notes = Null

\* record l of the local store and record p of the peer are two versions of one
\* record when the pass begins: l is unsynced and mapped to p, the fields differ
Conflict(t, l, p) ==
    /\ l \in task[t].localAtStart /\ p \in task[t].peerAtStart
    /\ ~l.synced /\ l.railway_id = p.id
    /\ l.data # StoredFields(p.data)

HoldsVersion(pid, d) == \E m \in local : m.railway_id = pid /\ m.data = d

\* C5 (as claimed): after a push-then-pull pass over such a conflict the local
\* store holds the peer's version of the record.
C5_PeerVersionWins ==
    \A t \in Tasks : RealtimeSucceeded(t) =>
        \A l \in task[t].localAtStart, p \in task[t].peerAtStart :
            Conflict(t, l, p) => HoldsVersion(p.id, StoredFields(p.data))

\* C5 (amended): with no other change to either store during the pass, the
\* local store ends with the local version when the push of the record
\* succeeded, and with the peer's version only when that push failed.
C5_LocalVersionWinsIfPushed ==
    \A t \in Tasks : RealtimeSucceeded(t) =>
        \A l \in task[t].localAtStart, p \in task[t].peerAtStart :
            Conflict(t, l, p) =>
                IF l.id \in task[t].errors
                THEN HoldsVersion(p.id, StoredFields(p.data))
                ELSE HoldsVersion(p.id, l.data)

C5_Witness ==
    \E t \in Tasks :
        /\ RealtimeSucceeded(t)
        /\ \E l \in task[t].localAtStart, p \in task[t].peerAtStart :
              Conflict(t, l, p) /\ l.id \notin task[t].errors /\ HoldsVersion(p.id, l.data)

\* C6: a pull-authoritative pass that receives an empty snapshot is accepted,
\* leaves the local store empty and records a sync-log entry that differs from
\* the entry of a normal successful pass.
C6_EmptySnapshotLogged ==
    \A t \in Tasks :
        (PullReturned(t) /\ task[t].kind \in {"railway", "manualPull"}
            /\ task[t].snap = <<>>)
            => /\ task[t].outcome = "ok"
               /\ local = {}
               /\ syncLog # <<>>
               /\ syncLog[Len(syncLog)] # PullSuccessEntry

C8_UniqueIdentityKey ==
    \A i, j \in 1..Len(excel) : KeyOf(excel[i]) = KeyOf(excel[j]) => i = j

\* C9: a create whose identity key exists is answered 400, whatever its animator
\* and week, and changes no row, no database row, no sync-log row and sends no
\* notification.
C9_DuplicateCreateRejected ==
    [][\A e \in CloudInputs :
          (CloudCreate(e) /\ \E i \in 1..Len(excel) : KeyOf(excel[i]) = KeyOf(e))
              => /\ resp'.status = 400
                 /\ UNCHANGED <<excel, cloudDb, cloudLog, notified>>]_vars

C9_Witness ==
    /\ resp.op = "create" /\ resp.status = 400
    /\ \E i \in 1..Len(excel) :
          KeyOf(excel[i]) = KeyOf(resp.req) /\ excel[i].animator # resp.req.animator
    /\ cloudDb # {}

\* insertData is called with the row of entry e in this step
InsertDataCalled(e) ==
    /\ dbEnabled
    /\ CloudCreate(e) \/ \E i \in 1..Len(excel) : CloudUpdate(i, e)
    /\ resp'.status = 200

\* C10: insertData called with a row whose identity key is in the table fails
\* and leaves the table as it is.
C10_InsertFailsOnConflict ==
    [][\A e \in CloudInputs :
          (InsertDataCalled(e)
              /\ \E r \in cloudDb : KeyOf(r) = KeyOf(DbData(e)))
              => /\ cloudLog'.status = "failed"
                 /\ cloudDb' = cloudDb]_vars

(***************************************************************************)
(* Claims about the push and pull of the SyncService.                      *)
(***************************************************************************)
\* handler t has left the loop of syncToRailway in a push-then-pull pass
PushLoopOver(t) ==
    /\ task[t].kind \in {"realtime", "productions"}
    /\ task[t].pc = "push" /\ task[t].toSync = <<>>

\* the entry syncToRailway writes for record r
PushEntryOf(r, failed) ==
    [sync_type |-> "local_to_railway", local_record_id |-> r.id,
     action |-> IF r.railway_id # 0 THEN "update" ELSE "insert",
     status |-> IF failed THEN "failed" ELSE "success"]

\* C11: a push whose record k fails is not aborted: when the loop is over, the
\* sync log ends with one entry per record of the batch, in order, failed for
\* the records whose push failed and success for the others, and the others
\* are on the peer.
C11_BatchNotAborted ==
    \A t \in Tasks : PushLoopOver(t) =>
        LET batch == SortById(task[t].localAtStart)
            n == Len(batch)
        IN  /\ task[t].errors \subseteq {r.id : r \in task[t].localAtStart}
            /\ n <= MaxLog =>
                 /\ Len(syncLog) >= n
                 /\ \A i \in 1..n :
                       /\ syncLog[Len(syncLog) - n + i]
                            = PushEntryOf(batch[i], batch[i].id \in task[t].errors)
                       /\ batch[i].id \notin task[t].errors
                            => \E q \in peer : q.data = batch[i].data

C11_Witness ==
    \E t \in Tasks :
        /\ PushLoopOver(t)
        /\ Cardinality(task[t].localAtStart) = 2
        /\ Cardinality(task[t].errors) = 1
        /\ syncLog[1].status = "failed" /\ syncLog[2].status = "success"

\* the latest sync-log entry, if it is the success entry of a pushed record
LastPushed ==
    IF syncLog # <<>>
       /\ syncLog[Len(syncLog)].sync_type = "local_to_railway"
       /\ syncLog[Len(syncLog)].status = "success"
    THEN {syncLog[Len(syncLog)].local_record_id}
    ELSE {}

\* C12: a record pushed successfully is marked synced: with no local change to
\* it since (nothing was logged after its success entry), no push pass holds it
\* among the records it selected.
C12_PushedNotSelectedAgain ==
    \A t \in Tasks :
        task[t].pc = "push"
            => \A i \in 1..Len(task[t].toSync) : task[t].toSync[i].id \notin LastPushed

\* handler t leaves syncFromRailway in this step because the fetch failed
FetchFails(t) == task[t].pc = "fetch" /\ task'[t].pc = "done"

\* C13: a failed fetch of the peer snapshot raises an error to the caller of the
\* pull, adds one failed full_sync entry to the sync log and leaves the local
\* store as it was.
C13_FetchFailureKeepsStore ==
    [][\A t \in Tasks : FetchFails(t) =>
          /\ task'[t].outcome = "error"
          /\ ~task'[t].pulled
          /\ syncLog' = LogSync(syncLog,
                                [sync_type |-> "railway_to_local_full", local_record_id |-> 0,
                                 action |-> "full_sync", status |-> "failed"])
          /\ local' = local]_vars

C13_Witness ==
    \E t \in Tasks :
        /\ task[t].pc = "done" /\ task[t].outcome = "error"
        /\ task[t].kind \in {"railway", "manualPull", "realtime"}
        /\ local # {}
        /\ syncLog[Len(syncLog)].status = "failed"
        /\ syncLog[Len(syncLog)].sync_type = "railway_to_local_full"

\* C14: every pass that sets isSyncing clears it in the end, whether it
\* succeeds or throws, every network call returning or timing out.
C14_FlagEventuallyCleared == isSyncing ~> ~isSyncing

C14_Witness ==
    \E t \in Tasks :
        /\ task[t].flag /\ task[t].pc = "done" /\ task[t].outcome = "error"
        /\ task[t].kind \in {"railway", "bidir", "realtime"}
        /\ ~isSyncing

\* C15: a timer tick that fires while a pass is running starts no pass and
\* queues nothing: no handler starts, no status row is written, no store changes.
C15_TickSkipsWhileRunning ==
    [][\A t \in Tasks :
          (Tick(t) /\ \E u \in Tasks : InSync(u))
              => UNCHANGED <<task, isSyncing, statusTbl, local, peer, syncLog>>]_vars

PassRunning == \E u \in Tasks : InSync(u)

\* C16: performRealtimeBidirectionalSync called while a pass is running waits;
\* after the wait it fails as busy, pushing and pulling nothing and leaving the
\* stores alone, if a pass is still running, and runs its own pass otherwise.
C16_BusyAfterOneWait ==
    [][\A t \in Tasks :
          /\ ((\E d \in LocalInputs : DataCreate(t, d)) /\ PassRunning)
                => task'[t].pc = "wait"
          /\ (RealtimeWake(t) /\ PassRunning)
                => /\ task'[t].pc = "done" /\ task'[t].outcome = "busy"
                   /\ UNCHANGED <<local, peer, syncLog, isSyncing>>
          /\ (RealtimeWake(t) /\ ~PassRunning)
                => task'[t].pc = "push" /\ isSyncing']_vars

(***************************************************************************)
(* Claims about the routes of the local server.                            *)
(***************************************************************************)
\* the on-mutation pass of handler t ends in this step, failed or refused as busy
PassFails(t) ==
    /\ task[t].kind = "realtime" /\ task[t].pc \in {"wait", "fetch"}
    /\ task'[t].pc = "done" /\ task'[t].outcome \in {"busy", "error"}

\* C17: a mutation through /api/production-data whose store operation succeeded
\* is answered success:true whatever the on-mutation pass did, and neither the
\* failing pass nor the answering route undoes the stored change; a mutation
\* whose store operation failed is answered with an error.
C17_MutationAnsweredOnStoreAlone ==
    [][\A t \in Tasks :
          /\ PassFails(t) => local' = local
          /\ (task[t].kind = "realtime" /\ task[t].pc = "done" /\ task'[t].pc = "replied")
                => /\ task'[t].reply.success /\ task'[t].reply.status = 200
                   /\ local' = local
          /\ (task[t].pc = "idle" /\ task'[t].pc = "replied")
                => /\ ~task'[t].reply.success /\ task'[t].reply.status = 404
                   /\ local' = local]_vars

C17_Witness ==
    \E t \in Tasks :
        /\ task[t].kind = "realtime" /\ task[t].pc = "replied"
        /\ task[t].outcome = "busy" /\ task[t].reply.success
        /\ task[t].mut.action = "update"
        /\ \E r \in local : r.id = task[t].mut.id /\ KeyOf(r.data) = task[t].mut.key

\* the push / the pull of the pass of handler t finished without error
PushSucceeded(t) == task[t].pushDone /\ task[t].errors = {}
PullSucceeded(t) == task[t].pulled

\* C18: the answer to a local mutation reports the sync as done only if it was:
\* synced_to_railway and railway_push / railway_pull 'completed' only when the
\* push and the pull finished without error, and 'failed' for no step that
\* succeeded.
C18_ReplyTellsSyncOutcome ==
    [][\A t \in Tasks :
          (task[t].pc = "done" /\ task'[t].pc = "replied"
              /\ task[t].kind \in {"realtime", "productions"})
              => /\ task'[t].reply.synced_to_railway
                      => PushSucceeded(t) /\ PullSucceeded(t)
                 /\ task'[t].reply.railway_push = "completed" => PushSucceeded(t)
                 /\ task'[t].reply.railway_pull = "completed" => PullSucceeded(t)
                 /\ task'[t].reply.railway_push = "failed" => ~PushSucceeded(t)
                 /\ task'[t].reply.railway_pull = "failed" => ~PullSucceeded(t)]_vars

\* C19: after a DELETE through /api/production-data whose on-mutation pass
\* returned success, the deleted record is neither in the local store nor on
\* the peer.
C19_DeleteSurvivesPass ==
    \A t \in Tasks :
        (RealtimeSucceeded(t) /\ task[t].mut.action = "delete")
            => /\ ~HasKey(local, task[t].mut.key)
               /\ ~PeerHasKey(peer, task[t].mut.key)

\* the local server has answered the peer's notification
NotificationHandled(t) == task[t].kind = "fromRailway" /\ task[t].pc = "replied"

\* C20: once the local server has handled the peer's notification of a create,
\* update or delete, it holds the record as the peer does: the peer's fields
\* after a create or an update, no such record after a delete.
C20_NotificationApplied ==
    \A t \in Tasks : NotificationHandled(t) =>
        IF task[t].mut.action = "delete"
        THEN ~HasKey(local, task[t].mut.key)
        ELSE \A q \in peer :
                KeyOf(q.data) = task[t].mut.key
                    => \E l \in local : l.data = StoredFields(q.data)

(***************************************************************************)
(* Claims about the cloud server's notification of its peer.               *)
(***************************************************************************)
\* C21: a failed notification never changes the outcome of the mutation that
\* triggered it: whenever a create, update or delete has notified the peer, the
\* request is answered 200, as it is when the notification is delivered.
C21_NotificationFailureHidden ==
    [][notified'.n # notified.n
          => /\ resp'.status = 200
             /\ resp'.op = notified'.action]_vars

C21_Witness ==
    /\ notified.outcome = "failed"
    /\ resp.op \in {"create", "update", "delete"}
    /\ resp.status = 200

(***************************************************************************)
(* Claims about the cloud server's startup pull.                           *)
(***************************************************************************)
StartupBounded ==
    /\ startup.fetches <= maxRetries
    /\ startup.round <= 2
    /\ startup.scheduled <= 1
    /\ startup.round = 2 => startup.scheduled = 1
    /\ (startup.pc = "deferred") => (startup.scheduled = 1 /\ startup.round = 1)

\* C22: the startup pull is bounded and terminates: a round makes at most 3
\* fetch attempts, a failed first round arms exactly one deferred round, once
\* the startup is over (the deferred round failed or a round succeeded) it
\* never acts again and requests are served, and it is over in the end.
C22_StartupPullBounded ==
    /\ []StartupBounded
    /\ [][startup.pc = "done" => startup' = startup]_vars
    /\ [](startup.pc = "done" => startup.listening)
    /\ <>(startup.pc = "done")

\* the deferred round has failed after three attempts and a request was served
C22_Witness ==
    /\ startup.pc = "done" /\ startup.round = 2 /\ startup.result = "failed"
    /\ startup.fetches = maxRetries
    /\ resp.op = "create" /\ resp.status = 200

(***************************************************************************)
(* Claims about errors of the local server's passes.                       *)
(***************************************************************************)
\* C23: an error raised by a timer-triggered pass is caught: the promise of
\* the timer callback is never rejected with nothing to handle it.
C23_TimerErrorCaught == \A t \in Tasks : task[t].pc # "rejected"

\* C24: a push the peer answers with success: false is a failed push, for a
\* create and for an update alike: the record joins errors and its log entry
\* says failed.
C24_RefusedPushFails ==
    [][\A t \in Tasks :
          \A id \in task'[t].refused \ task[t].refused :
              /\ id \in task'[t].errors
              /\ syncLog'[Len(syncLog')].local_record_id = id
              /\ syncLog'[Len(syncLog')].status = "failed"]_vars

(***************************************************************************)
(* Claims about authentication.                                            *)
(***************************************************************************)
\* the step is a request to the route of slot t's handler, which has run
ReachedHandler(t) ==
    /\ task'[t].kind = auth'.route
    /\ task'[t].reply.status # 401

\* C25: with a secret set, a request to a route behind authenticateAPI reaches
\* the handler only if its header key or its query key equals the secret, and
\* a request neither of whose keys equals it is answered 401 with the store and
\* the sync state untouched; with no secret set every request reaches it.
C25_GuardedRouteChecksKey ==
    [][(auth'.n # auth.n /\ auth'.route \in GuardedRoutes) =>
          IF auth.secret = Null
          THEN ReachedHandler(1)
          ELSE /\ ReachedHandler(1)
                    => (auth'.header = auth.secret \/ auth'.query = auth.secret)
               /\ (auth'.header # auth.secret /\ auth'.query # auth.secret)
                    => /\ task'[1].pc = "replied"
                       /\ task'[1].reply.status = 401
                       /\ UNCHANGED <<local, peer, isSyncing, syncLog, statusTbl>>]_vars

\* a request with a wrong key in the header was answered 401
C25_Witness ==
    /\ auth.secret = "k1"
    /\ auth.verdict = "401" /\ auth.header = "k2" /\ auth.query = Null
    /\ task[1].kind = auth.route /\ task[1].reply.status = 401

\* C26: with a secret set, no route that reads or modifies production records
\* serves a request without the secret: such a request, to any route, is
\* answered 401 and leaves the store as it was.
C26_EveryRouteChecksKey ==
    [][(/\ auth'.n # auth.n
        /\ auth.secret # Null
        /\ auth'.header # auth.secret
        /\ auth'.query # auth.secret)
          => /\ task'[1].pc = "replied"
             /\ task'[1].reply.status = 401
             /\ UNCHANGED local]_vars

(***************************************************************************)
(* Claims about updates of records that do not exist.                      *)
(***************************************************************************)
\* PUT /api/production-data/:id with an id the store lacks: 404, nothing
\* changed, no pass, no log entry
RouteRefusesAbsentId ==
    [][\A t \in Tasks, id \in 1..MaxId :
          (/\ Idle(t)
           /\ task'[t].kind = "realtime"
           /\ task'[t].mut.action = "update"
           /\ task'[t].mut.id = id
           /\ \A r \in local : r.id # id)
             => /\ task'[t].pc = "replied"
                /\ task'[t].reply.status = 404
                /\ UNCHANGED <<local, peer, isSyncing, syncLog>>]_vars

\* C27: an update of an id that is not in the store ends with a not-found
\* outcome: a call of updateData that leaves the table as it was (no row has
\* the id) does not return normally.
C27_UpdateOfAbsentIdFails ==
    [][(/\ resp' # resp
        /\ resp'.op = "updateData"
        /\ dbEnabled
        /\ peer' = peer)
          => resp'.status = 404]_vars

(***************************************************************************)
(* Claims about the frontend's format.                                     *)
(***************************************************************************)
\* every column of the row is a string that is not empty
NonEmptyStrings(frontendData) == \A c \in Columns : ~Falsy(frontendData[c])

\* the step is a create or an update through /api/production-data that the
\* store took
BodyStored ==
    /\ auth'.n # auth.n
    /\ auth'.route = "production-data"
    /\ task'[1].mut.action \in {"create", "update"}
    /\ task'[1].reply.status \notin {400, 404}

\* C28: a row whose eight columns are non-empty strings, converted to the
\* storage field names, stored, and converted back as GET /api/production-data
\* does, has its eight columns as they were sent.
C28_FrontendRoundTrip ==
    [][(BodyStored /\ NonEmptyStrings(auth'.body)) =>
          \E r \in local' :
              /\ r.id = task'[1].mut.id
              /\ \A c \in Columns : ToFrontend(r)[c] = auth'.body[c]]_vars

\* a complete row with notes has been created and is in the store
C28_Witness ==
    /\ auth.route = "production-data"
    /\ auth.body \in FrontendInputs /\ NonEmptyStrings(auth.body)
    /\ task[1].mut.action = "create"
    /\ \E r \in local : r.id = task[1].mut.id /\ r.data.notes = "fix"

\* the values POST /api/productions accepts
Statuses == {"submitted", "approved", "revision"}
ProjectTypes == {"short-form", "long-form"}

\* C29: every record of the local store has a status among submitted,
\* approved, revision and a project type among long-form, short-form.
C29_StoredEnumsValid ==
    \A r \in local :
        /\ r.data.status \in Statuses
        /\ r.data.project_type \in ProjectTypes

(***************************************************************************)
(* Claims about the ids a pull assigns.                                    *)
(***************************************************************************)
\* C30: in a pull, a peer record mapped to a local record keeps that record's
\* id; a peer record unknown locally gets an id that no local record had and
\* that no other record of the same pull gets.
C30_PullIdsFresh ==
    [][\A t \in Tasks :
          (task[t].pc = "apply" /\ task'[t].pc = "log") =>
              \A q \in SeqToSet(task[t].snap) :
                  \E r \in local' :
                      /\ r.railway_id = q.id
                      /\ IF FindLocalId(local, q.id) # 0
                         THEN r.id = FindLocalId(local, q.id)
                         ELSE /\ r.id \notin {l.id : l \in local}
                              /\ \A o \in local' : o.railway_id # q.id => o.id # r.id]_vars

(***************************************************************************)
(* Claims about the differences a pull reports.                            *)
(***************************************************************************)
\* handler t calls detectDifferences and replaceAllRecords in this step
PullApplies(t) == task[t].pc = "apply" /\ task'[t].pc = "log"

\* the peer records of the snapshot that no local record is mapped to, and
\* those whose local counterpart differs in a business field (a field the
\* peer left null counting as '')
AddedAndUpdatedExact ==
    [][\A t \in Tasks : PullApplies(t) =>
          LET snap == SeqToSet(task[t].snap) IN
          /\ {r.railway_id : r \in task'[t].differences.added}
                = {q.id : q \in {p \in snap : \A l \in local : l.railway_id # p.id}}
          /\ {r.railway_id : r \in task'[t].differences.updated}
                = {q.id : q \in {p \in snap :
                                    \E l \in local : /\ l.railway_id = p.id
                                                     /\ l.data # StoredFields(p.data)}}]_vars

\* C31: the differences a pull reports are exact: added are the peer records
\* no local record is mapped to, updated the peer records whose local
\* counterpart differs in a business field, removed the local records mapped
\* to a peer id that the fetched snapshot does not contain.
C31_DifferencesExact ==
    [][\A t \in Tasks : PullApplies(t) =>
          LET snap == SeqToSet(task[t].snap) IN
          /\ {r.railway_id : r \in task'[t].differences.added}
                = {q.id : q \in {p \in snap : \A l \in local : l.railway_id # p.id}}
          /\ {r.railway_id : r \in task'[t].differences.updated}
                = {q.id : q \in {p \in snap :
                                    \E l \in local : /\ l.railway_id = p.id
                                                     /\ l.data # StoredFields(p.data)}}
          /\ task'[t].differences.removed
                = {l \in local : /\ l.railway_id # 0
                                  /\ \A p \in snap : p.id # l.railway_id}]_vars

(***************************************************************************)
(* Claims about the requests of a push.                                    *)
(***************************************************************************)
\* handler t makes the request for the record at the head of its batch
Pushes(t) ==
    /\ task[t].pc = "push" /\ task[t].toSync # <<>>
    /\ task'[t].toSync = Tail(task[t].toSync)

C33_DeletedNotListed ==
    [][(/\ notified'.n # notified.n
        /\ notified'.action = "delete"
        /\ resp'.status = 200
        /\ dbEnabled)
          => \A data \in GetProductionData' :
                \A i \in 1..Len(data) : KeyOf(data[i]) # notified'.key]_vars

(***************************************************************************)
(* Claims about the cloud server's fetches from the local server.          *)
(***************************************************************************)
\* the step is one attempt of the startup's fetchFromLocalServerWithRetry
Attempted == startup'.fetches = startup.fetches + 1

\* C34: when the local server answers the startup fetch with the envelope
\* {success, data, count} holding at least one record, the records are handed
\* to replaceAllRecords and, unless that call throws, the startup pass
\* succeeds and the table holds exactly those records.
C34_EnvelopeStartupSucceeds ==
    [][(/\ Attempted
        /\ fetched'.reply.format = "envelope"
        /\ fetched'.reply.data # <<>>)
          => /\ fetched'.called
             /\ \/ fetched'.threw
                \/ /\ startup'.result = "synced"
                   /\ cloudDb' = SeqToSet(fetched'.reply.data)]_vars

\* C38: the cloud server never replaces its table with an empty snapshot: at
\* startup and on page refresh replaceAllRecords is called only with a fetched
\* list of at least one record, which the table then holds, and when the fetch
\* fails or returns no record the table is left as it was.
C38_NeverReplacedByEmpty ==
    /\ [](fetched.called
            => (fetched.reply.format = "array" /\ fetched.reply.data # <<>>))
    /\ [][cloudDb' # cloudDb
            => /\ fetched'.called /\ ~fetched'.threw
               /\ fetched'.reply.data # <<>>
               /\ cloudDb' = SeqToSet(fetched'.reply.data)]_vars

\* a page refresh whose fetch brought an empty list has left a filled table
C38_Witness ==
    /\ resp.op = "refresh"
    /\ fetched.reply = [format |-> "array", data |-> <<>>] /\ ~fetched.called
    /\ Cardinality(cloudDb) = 2

\* what fetchFromLocalServerWithRetry has returned: never an error, never an
\* empty array, with no attempt pending after it, null only after maxRetries
\* attempts and maxRetries - 1 delays
ReturnedOnce ==
    /\ startup.returned.kind # "thrown"
    /\ (startup.returned.kind = "data") => (startup.returned.data # <<>>)
    /\ (startup.returned.kind \in {"data", "null"})
          => (startup.pc \notin {"fetch", "delay"})
    /\ (startup.returned.kind = "null")
          => (startup.fetches = maxRetries /\ startup.delays = maxRetries - 1)

\* C39: fetchFromLocalServerWithRetry returns the first result that is not
\* empty and makes no attempt after it; when every attempt fails or brings no
\* data it returns null after exactly maxRetries attempts, with no delay after
\* the last one; it never throws.
C39_RetryReturns ==
    /\ []ReturnedOnce
    /\ [][Attempted =>
            IF fetched'.reply.format = "array" /\ fetched'.reply.data # <<>>
            THEN /\ startup'.returned = [kind |-> "data", data |-> fetched'.reply.data]
                 /\ startup'.delays = startup'.fetches - 1
            ELSE IF startup'.fetches < maxRetries
            THEN startup'.pc = "delay" /\ startup'.returned.kind = "pending"
            ELSE startup'.returned.kind = "null"]_vars

\* the deferred round got its data at the second attempt
C39_Witness ==
    /\ startup.round = 2 /\ startup.returned.kind = "data"
    /\ startup.fetches = 2 /\ startup.delays = 1
    /\ startup.result = "synced"

(***************************************************************************)
(* Claims about the running flag.                                          *)
(***************************************************************************)
\* handler t runs the pass that set isSyncing
HoldsFlag(t) == task[t].flag /\ InSync(t)

\* C35: a trigger that is skipped or rejected because a pass is running never
\* clears the running flag: isSyncing is true as long as the pass that set it
\* runs, at most one pass has set it, and it turns false only in the step in
\* which that pass finishes.
C35_FlagHeldUntilPassEnds ==
    /\ [](\A t \in Tasks : HoldsFlag(t) => isSyncing)
    /\ [](\A t, u \in Tasks : (HoldsFlag(t) /\ HoldsFlag(u)) => t = u)
    /\ [][(isSyncing /\ ~isSyncing')
            => \E t \in Tasks : HoldsFlag(t) /\ task'[t].pc = "done"]_vars

\* a mutation's pass was rejected as busy while the pass of a tick runs on
C35_Witness ==
    \E t, u \in Tasks :
        /\ task[t].kind = "realtime" /\ task[t].pc = "done" /\ task[t].outcome = "busy"
        /\ task[u].kind = "timer" /\ HoldsFlag(u)
        /\ isSyncing

(***************************************************************************)
(* Claims about repeated creates.                                          *)
(***************************************************************************)
\* C36: a local record is created on the peer at most once: over any sequence
\* of push passes, with no other writer of either store, no create request is
\* sent for a local record for which the peer already holds the record an
\* earlier create request made.
C36_CreatedAtMostOnce ==
    [][\A t \in Tasks :
          (Pushes(t) /\ Request(Head(task[t].toSync)).method = "POST")
              => ~PeerHasKey(peer, KeyOf(Head(task[t].toSync).data))]_vars

(***************************************************************************)
(* Claims about local writes during a pull.                                *)
(***************************************************************************)
PullEnds(t) == task[t].pc = "log" /\ task'[t].pc # "log"

\* C37: a record created or updated locally while a pull is in flight, after
\* the pull has fetched the peer snapshot and before replaceAllRecords, is
\* still in the local store with its new values when the pull ends.
C37_WrittenDuringPullKept ==
    [][\A t \in Tasks :
          PullEnds(t) =>
              \A w \in task[t].written :
                  \E r \in local : r.id = w.id /\ r.data = w.data]_vars

(***************************************************************************)
(* Claims about the rows addressed by index.                               *)
(***************************************************************************)
PageRequest == shown.request = "none" /\ shown'.request # "none"

\* C40: on the cloud server a PUT or DELETE /api/production-data/:index that
\* succeeds changes the record the client was shown at that index, also when
\* another client's create or delete came between the client's read of the
\* list and its request, and when the list is served from the database.
C40_IndexIsShownRecord ==
    [][(PageRequest /\ resp'.status = 200)
          => /\ shown'.index \in 1..Len(excel)
             /\ KeyOf(excel[shown'.index])
                    = KeyOf(shown.productionData[shown'.index])]_vars

====
